---- MODULE Spec2Model ----
(***************************************************************************)
(* Verification model of the rail-debug diagnosis pipeline:                *)
(*   core/analyzer.py  - pattern tables, _match_pattern, analyze()         *)
(*   core/llm.py       - provider clients and analyze_with_llm()           *)
(*   core/memory.py    - the analyses table (init_db, insert_analysis)     *)
(*                                                                         *)
(* A trace is abstracted by what the code's regular expressions see in it: *)
(* the detected language, the set of known patterns that re.search finds   *)
(* in the whole text, and the subset of them found in the error line.      *)
(* core/memory.py and utils/normalize.py carry escaped quote characters;   *)
(* the model follows the statements those files spell out.                 *)
(***************************************************************************)
EXTENDS Integers, Sequences, FiniteSets, TLC

VARIABLES
    env,        \* provider SDK imports and credentials (core/llm.py)
    dbReady,    \* TRUE once the analyses table exists (core/memory.py)
    pc,         \* "idle" | "returned": position of the caller of analyze()
    req,        \* arguments of the last analyze() call
    outcome,    \* what the last analyze() call did: report, exception, effects
    llmOut,     \* what the last direct analyze_with_llm() call returned
    analyses,   \* rows of the analyses table, in insertion order
    nextId,     \* AUTOINCREMENT counter of the analyses table
    lastInsert, \* arguments and result of the last insert_analysis() call
    disk,       \* version of the content of each source file (0: no such file)
    linecache,  \* linecache.cache: the version cached for each file (0: none)
    chain,      \* argument and result of the last parse_exception_chain() call
    batch,      \* argument and result of the last extract_tracebacks() call
    built,      \* arguments and result of the last _build_report_from_llm() call
    ret,        \* function, arguments and result of the last call of a pure function
    clock,      \* CURRENT_TIMESTAMP of the database, in seconds
    project_cache, \* _project_cache: the profile cached for each absolute root
    projects,   \* version of the content of each project directory
    last_write, \* the last profile stored for each root since the last clear
    th,         \* each thread's position in a project-cache call, and its locals
    logfile,    \* the watched file: the pieces written to it since start()
    sentinel,   \* the Sentinel's _buffer, _in_traceback, _error_count, _file_pos
    wt,         \* position and locals of the observer thread and of the main loop
    analysed,   \* the texts the Sentinel passed to analyze(), in order
    flushes     \* number of _flush_traceback calls that passed line 80

vars == <<env, dbReady, pc, req, outcome, llmOut, analyses, nextId, lastInsert,
          disk, linecache, chain, batch, built, ret, clock,
          project_cache, projects, last_write, th,
          logfile, sentinel, wt, analysed, flushes>>

projectVars == <<project_cache, projects, last_write, th>>

watchVars == <<logfile, sentinel, wt, analysed, flushes>>

(***************************************************************************)
(* Bounds of the model.                                                    *)
(***************************************************************************)
\* patterns a trace may match at once, when the pattern matcher is studied
MaxMatches == 2
\* patterns a trace may match at once, when the whole cascade is studied
MaxCascadeMatches == 1
\* patterns of each table offered to the cascade (the last ones of the table)
MaxCascadePatterns == 2
\* distinct fingerprints (tb_hash values) offered to the memory store
MaxHash == 2
\* distinct payloads (root cause / fix / snippet) offered to the memory store
MaxPayload == 2
\* user source files that traces refer to (file 0 is a runtime file)
MaxFiles == 1
\* frames of a trace, when source reading and locations are studied
MaxFrames == 2
\* contents a file goes through on disk (0: the file does not exist)
MaxVersion == 2
\* parts of a text given to the chain splitter
MaxChainLen == 5
\* lines of a text given to the batch extractor
MaxBatchLines == 4
\* lines of a text of Python traceback lines given to the batch extractor
MaxPythonLines == 6
\* frames of a trace, when the choice of the frames to read is studied
MaxContextFrames == 4
\* language signatures a text matches at once
MaxSignatures == 3
\* lines of a source file, when the window that is read is studied
MaxFileLines == 4
\* line numbers that frames name, when the window is studied (from 0)
MaxLine == 5
\* radius of the window
MaxRadius == 2
\* rows of the analyses table, when recall is studied
MaxRows == 2
\* seconds the database clock advances
MaxClock == 1
\* the limit given to query_similar
MaxLimit == 1
\* project roots
MaxRoots == 2
\* contents a project directory goes through
MaxProjectVersion == 2
\* threads that call the project cache
MaxThreads == 2
\* lines of a text given to normalize_traceback
MaxNormLines == 3
\* tokens and newlines kept in the snippet (the 500 of norm_tb[:500])
MaxSnippetUnits == 3
\* tracebacks appended to the watched file, and frame lines in each
MaxTracebacks == 2
MaxTraceFrames == 1
\* lines that the writer splits over two writes
MaxSplitLines == 1

\* patterns of all tables that one error text matches (_match_pattern called
\* on its own)
MaxTextMatches == 2

\* characters of the snippet kept in the search term (the 100 of tb_snippet[:100]);
\* stored snippets have up to that many characters, queried ones one more
MaxSearchLen == 1

(***************************************************************************)
(* Pattern tables: the severity of each pattern, in declaration order.     *)
(***************************************************************************)
KNOWN_PATTERNS ==
    << "high", "high", "medium", "medium", "high",
       "critical", "critical", "medium", "medium" >>

NODE_PATTERNS ==
    << "high", "high", "high", "medium", "high",
       "critical", "critical", "high" >>

RUST_PATTERNS ==
    << "critical", "critical", "critical", "high", "high", "high" >>

GO_PATTERNS ==
    << "critical", "critical", "critical", "critical", "critical", "high" >>

JAVA_PATTERNS ==
    << "critical", "high", "high", "critical", "critical",
       "high", "high", "medium", "critical", "high" >>

SOLIDITY_PATTERNS ==
    << "critical", "critical", "critical", "critical",
       "critical", "critical", "critical" >>

TableNames == {"python", "node", "rust", "go", "java", "solidity"}

Table(name) ==
    CASE name = "python"   -> KNOWN_PATTERNS
      [] name = "node"     -> NODE_PATTERNS
      [] name = "rust"     -> RUST_PATTERNS
      [] name = "go"       -> GO_PATTERNS
      [] name = "java"     -> JAVA_PATTERNS
      [] name = "solidity" -> SOLIDITY_PATTERNS

\* a pattern is named by its table and its position in the table
PatternIds == UNION { { <<n, i>> : i \in 1..Len(Table(n)) } : n \in TableNames }

NoPattern == <<"none", 0>>

\* patterns with capture groups whose suggested_fix text holds a brace pair that
\* is not one of the fields m1, m2, ...: template["suggested_fix"].format(**groups)
\* raises KeyError for them
UnformattableTemplates ==
    { <<"go", 2>>, <<"go", 6>>, <<"java", 3>>, <<"java", 10>> }

Languages == {"python", "node", "rust", "go", "java", "solidity", "unknown"}

Severities == {"low", "medium", "high", "critical"}

(***************************************************************************)
(* Traces.  go patterns 1 to 3 spell out a text that the general pattern   *)
(* "panic: (.+)" (go pattern 4) also finds, so a match set that holds one  *)
(* of them holds pattern 4 as well.                                        *)
(***************************************************************************)
Closed(S) ==
    (\E i \in 1..3 : <<"go", i>> \in S) => <<"go", 4>> \in S

RECURSIVE SubsetsUpTo(_, _)
SubsetsUpTo(S, k) ==
    IF k = 0 THEN { {} }
    ELSE LET prev == SubsetsUpTo(S, k - 1)
         IN  prev \cup { p \cup {x} : p \in prev, x \in S }

RECURSIVE SeqsUpTo(_, _)
SeqsUpTo(S, n) ==
    IF n = 0 THEN { << >> }
    ELSE LET shorter == SeqsUpTo(S, n - 1)
         IN  shorter \cup { Append(q, x) : q \in { r \in shorter : Len(r) = n - 1 }, x \in S }

\* Select pattern sets based on language
pattern_sets(lang) ==
    CASE lang = "node"     -> << "node", "python" >>
      [] lang = "rust"     -> << "rust", "python" >>
      [] lang = "go"       -> << "go" >>
      [] lang = "java"     -> << "java" >>
      [] lang = "solidity" -> << "solidity" >>
      [] OTHER             -> << "python" >>

TriedPatterns(lang) ==
    { p \in PatternIds : \E j \in 1..Len(pattern_sets(lang)) : pattern_sets(lang)[j] = p[1] }

\* the empty or whitespace-only trace: no language signature, no pattern
EmptyTrace ==
    [empty |-> TRUE, lang |-> "unknown", whole |-> {}, line |-> {}, frames |-> << >>]

\* the last n patterns of each table that lang tries
LastPatterns(lang, n) ==
    { p \in TriedPatterns(lang) : p[2] > Len(Table(p[1])) - n }

\* the last pattern of each table that lang tries whose texts can be formatted
LastFormattable(lang) ==
    { p \in TriedPatterns(lang) \ UnformattableTemplates :
        \A q \in TriedPatterns(lang) \ UnformattableTemplates :
            q[1] = p[1] => q[2] <= p[2] }

\* traces of language l that match at most k of the patterns in universe
TracesOf(l, universe, k) ==
    UNION { { [empty |-> FALSE, lang |-> l, whole |-> w, line |-> ln, frames |-> << >>] :
                ln \in { x \in SUBSET w : Closed(x) } } :
            w \in { x \in SubsetsUpTo(universe, k) : Closed(x) } }

PatternTraces ==
    { EmptyTrace } \cup
    UNION { TracesOf(l, TriedPatterns(l), MaxMatches) : l \in Languages }

CascadeTraces ==
    { EmptyTrace } \cup
    UNION { TracesOf(l, LastPatterns(l, MaxCascadePatterns), MaxCascadeMatches) :
            l \in Languages }

(***************************************************************************)
(* Frames.  A trace lists its frames in text order; a frame names a file   *)
(* and a line.  File 0 stands for a file of the language runtime (a path   *)
(* under /usr/local/go/, /rustc/, node:), the others are user files.       *)
(***************************************************************************)
RuntimeFile == 0
AllFiles == RuntimeFile..MaxFiles

\* the two line numbers of the frames of DEMO_GO_TRACEBACK
FrameLines == {15, 22}

Frames == [file : AllFiles, line : FrameLines]

\* traces with frames: each language, with or without a known pattern in
\* the text; a text without a language signature has no frame
SourceTraces ==
    { EmptyTrace } \cup
    { [empty |-> FALSE, lang |-> "unknown", whole |-> {}, line |-> {}, frames |-> << >>] } \cup
    UNION { { [empty |-> FALSE, lang |-> l, whole |-> w, line |-> w, frames |-> fs] :
                w \in { x \in SubsetsUpTo(LastPatterns(l, 1) \cup LastFormattable(l), 1) :
                            Closed(x) },
                fs \in SeqsUpTo(Frames, MaxFrames) } :
            l \in Languages \ {"unknown"} }

(***************************************************************************)
(* core/context.py: frame extraction and the source reader.  disk maps a   *)
(* file to the version of its content (0: no such file), the line cache    *)
(* maps a file to the version it holds (0: not cached).                    *)
(***************************************************************************)
\* LANGUAGE_SIGNATURES: the languages in declaration order, each with the
\* number of its signatures; a signature is named by its language and position
LANGUAGE_SIGNATURES ==
    << <<"python", 2>>, <<"node", 3>>, <<"rust", 3>>,
       <<"go", 3>>, <<"java", 3>>, <<"solidity", 4>> >>

Signatures ==
    UNION { { <<LANGUAGE_SIGNATURES[k][1], i>> : i \in 1..LANGUAGE_SIGNATURES[k][2] } :
            k \in 1..Len(LANGUAGE_SIGNATURES) }

\* max(scores, key=scores.get) that keeps the last of the equal maxima
RECURSIVE MaxKey_last(_, _, _)
MaxKey_last(scores, i, best) ==
    IF i > Len(scores) THEN best
    ELSE MaxKey_last(scores, i + 1, IF scores[i].score >= best.score THEN scores[i] ELSE best)

\* max(scores, key=scores.get): the first key, in insertion order, whose
\* value no other exceeds
RECURSIVE MaxKey(_, _, _)
MaxKey(scores, i, best) ==
    IF i > Len(scores) THEN best
    ELSE MaxKey(scores, i + 1, IF scores[i].score > best.score THEN scores[i] ELSE best)

\* detect_language on a text in which re.search finds the signatures `found`
detect_language(found) ==
    LET counted == [k \in 1..Len(LANGUAGE_SIGNATURES) |->
                      [lang |-> LANGUAGE_SIGNATURES[k][1],
                       score |-> Cardinality({ s \in found :
                                                s[1] = LANGUAGE_SIGNATURES[k][1] })]]
        scores == SelectSeq(counted, LAMBDA e : e.score > 0)
    IN  IF scores = << >> THEN "unknown" ELSE MaxKey(scores, 2, scores[1]).lang

\* reads of frames an extract_context call makes by default
max_frames == 3

EmptyCache == [f \in AllFiles |-> 0]

\* extract_frames: the node, rust and go parsers skip runtime files
extract_frames(t) ==
    IF t.lang \in {"node", "rust", "go"}
    THEN SelectSeq(t.frames, LAMBDA f : f.file # RuntimeFile)
    ELSE t.frames

\* frames[-n:]
LastN(frames, n) ==
    SubSeq(frames, IF Len(frames) > n THEN Len(frames) - n + 1 ELSE 1, Len(frames))

\* read_source_window without the clearcache() that ends it
read_source_window_keeps_cache(file, files, cache) ==
    IF files[file] = 0
    THEN [exists |-> FALSE, version |-> 0, cache |-> cache]
    ELSE LET version == IF cache[file] # 0 THEN cache[file] ELSE files[file]
         IN  [exists |-> TRUE, version |-> version,
              cache |-> [cache EXCEPT ![file] = version]]

\* read_source_window: linecache.getline serves a cached file from the cache
\* and reads any other from disk; clearcache() empties the cache afterwards
read_source_window(file, files, cache) ==
    IF files[file] = 0
    THEN [exists |-> FALSE, version |-> 0, cache |-> cache]
    ELSE LET version == IF cache[file] # 0 THEN cache[file] ELSE files[file]
         IN  [exists |-> TRUE, version |-> version, cache |-> EmptyCache]

\* a path given to read_source_window: whether os.path.isfile holds, whether
\* open() and decoding succeed, and how many lines the file has
SourceFiles ==
    { f \in [isfile : BOOLEAN, readable : BOOLEAN, length : 0..MaxFileLines] :
        ~f.isfile => (~f.readable /\ f.length = 0) }

\* linecache.getline: "" for a file that cannot be read and for a line
\* number outside the file
getline(file, i) == file.readable /\ i >= 1 /\ i <= file.length

\* for i in range(start, end + 1), with the break past the end of the file
RECURSIVE WindowLoop(_, _, _, _, _, _)
WindowLoop(file, i, end, line_number, lines, actual_end) ==
    IF i > end THEN [lines |-> lines, actual_end |-> actual_end]
    ELSE IF getline(file, i)
         THEN WindowLoop(file, i + 1, end, line_number, Append(lines, i), i)
    ELSE IF i > line_number THEN [lines |-> lines, actual_end |-> actual_end]
    ELSE WindowLoop(file, i + 1, end, line_number, lines, actual_end)

\* read_source_window: the SourceContext returned for (file_path, line_number,
\* radius); source_lines is the sequence of the line numbers read
SourceContext(file, line_number, radius) ==
    LET start == IF line_number - radius > 1 THEN line_number - radius ELSE 1
        end == line_number + radius
    IN  IF ~file.isfile
        THEN [error_line |-> line_number, start_line |-> start, end_line |-> end,
              source_lines |-> << >>, exists |-> FALSE]
        ELSE LET read == WindowLoop(file, start, end, line_number, << >>, start)
             IN  [error_line |-> line_number, start_line |-> start,
                  end_line |-> read.actual_end, source_lines |-> read.lines,
                  exists |-> TRUE]

\* the loop of extract_context over target_frames
RECURSIVE ReadFrames(_, _, _, _, _)
ReadFrames(target_frames, i, files, cache, reads) ==
    IF i > Len(target_frames) THEN [cache |-> cache, reads |-> reads]
    ELSE LET ctx == read_source_window(target_frames[i].file, files, cache)
         IN  ReadFrames(target_frames, i + 1, files, ctx.cache,
                        IF ctx.exists
                        THEN Append(reads, [file |-> target_frames[i].file,
                                            line |-> target_frames[i].line,
                                            version |-> ctx.version,
                                            ondisk |-> files[target_frames[i].file]])
                        ELSE reads)

extract_context(t, files, cache) ==
    ReadFrames(LastN(extract_frames(t), max_frames), 1, files, cache, << >>)

\* clear_cache: linecache.clearcache()
clear_cache(cache) == EmptyCache

(***************************************************************************)
(* core/git_blame.py: get_git_context_for_traceback.  A frame gets a       *)
(* context when its file exists and is not a stdlib or site-packages file; *)
(* every user file on disk is tracked in a repository.                     *)
(***************************************************************************)
get_git_context_for_traceback(t, files) ==
    SelectSeq(LastN(extract_frames(t), max_frames),
              LAMBDA f : files[f.file] # 0 /\ f.file # RuntimeFile)

(***************************************************************************)
(* core/analyzer.py: _extract_location.  None is file -1, line 0.          *)
(***************************************************************************)
NoneFile == -1
NoneLine == 0
NoLocation == [file_path |-> NoneFile, line_number |-> NoneLine]

\* matches[-1] for python, rust and go, matches[0] for node, java, solidity
extract_location(t) ==
    IF t.lang = "unknown" \/ t.frames = << >> THEN NoLocation
    ELSE LET f == IF t.lang \in {"python", "rust", "go"}
                  THEN t.frames[Len(t.frames)]
                  ELSE t.frames[1]
         IN  [file_path |-> f.file, line_number |-> f.line]

(***************************************************************************)
(* core/analyzer.py: _match_pattern.  `matching` is the set of patterns    *)
(* that re.search finds in error_text.                                     *)
(***************************************************************************)
RECURSIVE ScanTable(_, _, _)
ScanTable(name, i, matching) ==
    IF i > Len(Table(name)) THEN NoPattern
    ELSE IF <<name, i>> \in matching THEN <<name, i>>
    ELSE ScanTable(name, i + 1, matching)

RECURSIVE ScanSets(_, _, _)
ScanSets(sets, j, matching) ==
    IF j > Len(sets) THEN NoPattern
    ELSE LET m == ScanTable(sets[j], 1, matching)
         IN  IF m # NoPattern THEN m ELSE ScanSets(sets, j + 1, matching)

match_pattern(matching, lang) ==
    LET m == ScanSets(pattern_sets(lang), 1, matching)
    IN  IF m = NoPattern
        THEN [matched |-> FALSE, pattern |-> NoPattern, severity |-> "none",
              raised |-> "none"]
        ELSE IF m \in UnformattableTemplates
        THEN [matched |-> TRUE, pattern |-> m, severity |-> "none",
              raised |-> "KeyError"]
        ELSE [matched |-> TRUE, pattern |-> m, severity |-> Table(m[1])[m[2]],
              raised |-> "none"]

\* TIER 1 match text: the whole trace for go/java/solidity/rust, else the error line
match_text(t) ==
    IF t.lang \in {"go", "java", "solidity", "rust"} THEN t.whole ELSE t.line

(***************************************************************************)
(* core/llm.py: the model gateway.                                         *)
(***************************************************************************)
TIER_2_MODEL == "grok-2-latest"
TIER_3_MODEL == "claude-3-5-haiku-latest"
TIER_4_MODEL == "claude-3-7-sonnet-latest"

\* env: which SDK imports succeeded and which credentials are set
Envs ==
    [openai_sdk : BOOLEAN, anthropic_sdk : BOOLEAN,
     xai_key : BOOLEAN, anthropic_key : BOOLEAN]

\* What a provider does when it is called:
\*   ok              JSON object with a root_cause key
\*   no_root_cause   JSON object without a root_cause key
\*   json_not_object JSON text that is not an object (a list, a string)
\*   non_json        text that json.loads rejects
\*   raises          the SDK call raises
ResponseKinds == {"ok", "no_root_cause", "json_not_object", "non_json", "raises"}

\* a JSON object carries the severity the provider wrote, if any, and the
\* file_path and line_number it wrote, if any
Responses ==
    { [kind |-> "ok", severity |-> s, file_path |-> NoneFile, line_number |-> NoneLine] :
        s \in Severities \cup {"absent"} }
    \cup
    { [kind |-> k, severity |-> "absent", file_path |-> NoneFile, line_number |-> NoneLine] :
        k \in {"no_root_cause", "json_not_object", "non_json", "raises"} }

\* the provider is asked for one of the four severities and writes what it
\* writes: "info" stands for any other string
WrittenSeverities == Severities \cup {"absent", "info"}

\* JSON objects with a root_cause, with every choice of the optional keys
ReportResponses ==
    [kind : {"ok"}, severity : WrittenSeverities,
     file_path : {NoneFile} \cup AllFiles, line_number : {NoneLine} \cup FrameLines]

\* the response of a provider that is never reached
NoResponse ==
    [kind |-> "raises", severity |-> "absent", file_path |-> NoneFile,
     line_number |-> NoneLine]

\* TRUE when a client object is returned, FALSE when None is returned
get_grok_client(e) ==
    IF ~e.openai_sdk THEN FALSE
    ELSE IF ~e.xai_key THEN FALSE
    ELSE TRUE

get_anthropic_client(e) ==
    IF ~e.anthropic_sdk THEN FALSE
    ELSE IF ~e.anthropic_key THEN FALSE
    ELSE TRUE

\* the value None returned by the gateway
NoneResult ==
    [none |-> TRUE, tier |-> 0, model |-> "none", error_type |-> "absent",
     error_message |-> "absent", root_cause |-> "absent",
     suggested_fix |-> "absent", severity |-> "absent",
     file_path |-> NoneFile, line_number |-> NoneLine]

\* the dict built in the except branch
SentinelResult(tier, model, who) ==
    [none |-> FALSE, tier |-> tier, model |-> model,
     error_type |-> "LLMAnalysisError", error_message |-> "exception text",
     root_cause |-> who, suggested_fix |-> "check key or retry",
     severity |-> "low", file_path |-> NoneFile, line_number |-> NoneLine]

\* the dict parsed from the provider's JSON object, with _tier and _model added
ParsedResult(resp, tier, model) ==
    [none |-> FALSE, tier |-> tier, model |-> model,
     error_type |-> "llm", error_message |-> "llm",
     root_cause |-> IF resp.kind = "ok" THEN "llm" ELSE "absent",
     suggested_fix |-> "llm", severity |-> resp.severity,
     file_path |-> resp.file_path, line_number |-> resp.line_number]

\* what client.create + _parse_response + result["_tier"] = ... do with a response
ProviderCall(resp, tier, model, who) ==
    IF resp.kind \in {"raises", "non_json", "json_not_object"}
    THEN SentinelResult(tier, model, who)
    ELSE ParsedResult(resp, tier, model)

\* each gateway function returns its result and the provider calls it made
analyze_grok(e, resp) ==
    IF ~get_grok_client(e)
    THEN [result |-> NoneResult, calls |-> << >>]
    ELSE [result |-> ProviderCall(resp, 2, TIER_2_MODEL, "Grok analysis failed"),
          calls |-> << "provider:2" >>]

analyze_anthropic(e, deep, resp) ==
    IF ~get_anthropic_client(e)
    THEN [result |-> NoneResult, calls |-> << >>]
    ELSE LET model == IF deep THEN TIER_4_MODEL ELSE TIER_3_MODEL
             tier == IF deep THEN 4 ELSE 3
         IN  [result |-> ProviderCall(resp, tier, model, "Claude analysis failed"),
              calls |-> << IF deep THEN "provider:4" ELSE "provider:3" >>]

analyze_with_llm(e, deep, haiku, resp) ==
    IF deep THEN analyze_anthropic(e, TRUE, resp)
    ELSE IF haiku THEN analyze_anthropic(e, FALSE, resp)
    ELSE analyze_grok(e, resp)

\* parameters that analyze_with_llm declares
LlmParams == {"traceback_text", "deep", "haiku", "source_context"}

\* Python's call binding: a keyword the function does not declare is a TypeError
CallAnalyzeWithLlm(kwargs, e, deep, haiku, resp) ==
    IF kwargs \subseteq LlmParams
    THEN [raised |-> "none"] @@ analyze_with_llm(e, deep, haiku, resp)
    ELSE [raised |-> "TypeError", result |-> NoneResult, calls |-> << >>]

(***************************************************************************)
(* core/analyzer.py: DebugReport, _build_report_from_llm and analyze().    *)
(***************************************************************************)
\* no report: the call has not returned one
NoReport ==
    [tier |-> -1, severity |-> "none", root_cause |-> "none",
     suggested_fix |-> "none", error_type |-> "none", error_message |-> "none",
     model |-> "none", pattern |-> NoPattern,
     file_path |-> NoneFile, line_number |-> NoneLine]

DebugReport(tier, severity, root_cause, suggested_fix, error_type, error_message, model, pattern, loc) ==
    [tier |-> tier, severity |-> severity, root_cause |-> root_cause,
     suggested_fix |-> suggested_fix, error_type |-> error_type,
     error_message |-> error_message, model |-> model, pattern |-> pattern,
     file_path |-> loc.file_path, line_number |-> loc.line_number]

\* llm_result.get(key, default)
Get(value, default) == IF value = "absent" THEN default ELSE value

\* llm_result.get(key, default) for file_path and line_number
GetNumber(value, none, default) == IF value = none THEN default ELSE value

build_report_from_llm(r, loc) ==
    DebugReport(r.tier, Get(r.severity, "medium"), r.root_cause,
                Get(r.suggested_fix, ""), Get(r.error_type, "trace"),
                Get(r.error_message, "trace"), r.model, NoPattern,
                [file_path |-> GetNumber(r.file_path, NoneFile, loc.file_path),
                 line_number |-> GetNumber(r.line_number, NoneLine, loc.line_number)])

\* if llm_result and "root_cause" in llm_result
Usable(r) == ~r.none /\ r.root_cause # "absent"

Raise(exc, effects) == [raised |-> exc, report |-> NoReport, effects |-> effects]
Return(report, effects) == [raised |-> "none", report |-> report, effects |-> effects]

\* keywords of the three analyze_with_llm call sites
DeepCallKwargs == {"traceback_text", "deep", "source_context", "project_context"}
HaikuCallKwargs == {"traceback_text", "haiku", "source_context", "project_context"}
GrokCallKwargs == {"traceback_text", "source_context", "project_context"}

\* FALLBACK: No LLM available
Fallback(loc, effects) ==
    Return(DebugReport(0, "medium", "unrecognized, no LLM available",
                       "configure API keys", "trace", "trace", "none", NoPattern, loc),
           effects)

\* TIER 2: Grok Fast fallback
Tier2(loc, e, resp, effects) ==
    LET c == CallAnalyzeWithLlm(GrokCallKwargs, e, FALSE, FALSE, resp)
        called == effects \o << "analyze_with_llm:2" >> \o c.calls
    IN  IF c.raised # "none" THEN Raise(c.raised, called)
        ELSE IF Usable(c.result)
             THEN Return(build_report_from_llm(c.result, loc), called \o << "clear_cache" >>)
             ELSE Fallback(loc, called \o << "clear_cache" >>)

\* Tier1 with a memory write added after the pattern report is built
Tier1_records(t, e, resp, effects) ==
    LET matched == match_pattern(match_text(t), t.lang)
        tried == effects \o << "match_pattern" >>
    IN  IF matched.raised # "none" THEN Raise(matched.raised, tried)
        ELSE IF matched.matched
        THEN Return(DebugReport(1, matched.severity, "pattern", "pattern",
                                "trace", "trace", "none", matched.pattern,
                                extract_location(t)),
                    tried \o << "insert_analysis" >>)
        ELSE Tier2(extract_location(t), e, resp, tried)

\* TIER 1: Regex
Tier1(t, e, resp, effects) ==
    LET matched == match_pattern(match_text(t), t.lang)
        tried == effects \o << "match_pattern" >>
    IN  IF matched.raised # "none" THEN Raise(matched.raised, tried)
        ELSE IF matched.matched
        THEN Return(DebugReport(1, matched.severity, "pattern", "pattern",
                                "trace", "trace", "none", matched.pattern,
                                extract_location(t)),
                    tried)
        ELSE Tier2(extract_location(t), e, resp, tried)

\* TIER 3: Haiku flag bypasses regex entirely
Tier3(t, haiku, e, resp, effects) ==
    IF haiku
    THEN LET c == CallAnalyzeWithLlm(HaikuCallKwargs, e, FALSE, TRUE, resp)
             called == effects \o << "analyze_with_llm:3" >> \o c.calls
         IN  IF c.raised # "none" THEN Raise(c.raised, called)
             ELSE IF Usable(c.result)
                  THEN Return(build_report_from_llm(c.result, extract_location(t)),
                              called \o << "clear_cache" >>)
                  ELSE Tier1(t, e, resp, called \o << "clear_cache" >>)
    ELSE Tier1(t, e, resp, effects)

\* TIER 4: Deep flag bypasses regex entirely
Tier4(t, deep, haiku, e, resp, effects) ==
    IF deep
    THEN LET c == CallAnalyzeWithLlm(DeepCallKwargs, e, TRUE, FALSE, resp)
             called == effects \o << "analyze_with_llm:4" >> \o c.calls
         IN  IF c.raised # "none" THEN Raise(c.raised, called)
             ELSE IF Usable(c.result)
                  THEN Return(build_report_from_llm(c.result, extract_location(t)),
                              called \o << "clear_cache" >>)
                  ELSE Tier3(t, haiku, e, resp, called \o << "clear_cache" >>)
    ELSE Tier3(t, haiku, e, resp, effects)

\* query_similar on a database without the analyses table: the SELECT raises
\* sqlite3.OperationalError, and analyze() has no handler for it
Recall(use_memory, db, effects) ==
    IF ~use_memory THEN [raised |-> "none", effects |-> effects]
    ELSE IF ~db THEN [raised |-> "OperationalError", effects |-> effects \o << "query_similar" >>]
    ELSE [raised |-> "none", effects |-> effects \o << "query_similar" >>]

\* the whole of analyze(): the side context first, then the cascade; files
\* and cache are the disk and the line cache the call starts with
analyze(t, deep, haiku, project_path, no_git, use_memory, e, db, resp, files, cache) ==
    LET source_context == extract_context(t, files, cache)
        context ==
            << "detect_language", "extract_source_context" >>
            \o (IF no_git THEN << >> ELSE << "get_git_context" >>)
            \o (IF project_path THEN << "get_project_profile" >> ELSE << >>)
            \o << "normalize_traceback" >>
        recall == Recall(use_memory, db, context)
        run == IF recall.raised # "none" THEN Raise(recall.raised, recall.effects)
               ELSE Tier4(t, deep, haiku, e, resp, recall.effects)
        cleared == \E i \in 1..Len(run.effects) : run.effects[i] = "clear_cache"
    IN  [raised |-> run.raised, report |-> run.report, effects |-> run.effects,
         reads |-> source_context.reads,
         git |-> IF no_git THEN << >> ELSE get_git_context_for_traceback(t, files),
         linecache |-> IF cleared THEN clear_cache(source_context.cache)
                       ELSE source_context.cache]

(***************************************************************************)
(* core/memory.py: the analyses table.                                     *)
(***************************************************************************)
Hashes == 1..MaxHash
Payloads == 1..MaxPayload

HasHash(rows, h) == \E i \in 1..Len(rows) : rows[i].tb_hash = h

\* insert_analysis with the UNIQUE constraint on tb_hash left out of the schema
insert_analysis_no_unique(rows, id, ready, h, p, success, snippet, now) ==
    IF ~ready
    THEN [raised |-> "OperationalError", inserted |-> FALSE, rows |-> rows, id |-> id]
    ELSE [raised |-> "none", inserted |-> TRUE,
          rows |-> Append(rows, [id |-> id, timestamp |-> now, tb_hash |-> h,
                                 tb_snippet |-> snippet, payload |-> p,
                                 success |-> IF success THEN 1 ELSE 0]),
          id |-> id + 1]

\* insert_analysis: INSERT into a table whose tb_hash column is UNIQUE.
\* Without the table the INSERT raises OperationalError, which is not caught;
\* a duplicate tb_hash raises IntegrityError (UniqueViolation), which is.
insert_analysis(rows, id, ready, h, p, success, snippet, now) ==
    IF ~ready
    THEN [raised |-> "OperationalError", inserted |-> FALSE, rows |-> rows, id |-> id]
    ELSE IF HasHash(rows, h)
    THEN [raised |-> "none", inserted |-> FALSE, rows |-> rows, id |-> id]
    ELSE [raised |-> "none", inserted |-> TRUE,
          rows |-> Append(rows, [id |-> id, timestamp |-> now, tb_hash |-> h,
                                 tb_snippet |-> snippet, payload |-> p,
                                 success |-> IF success THEN 1 ELSE 0]),
          id |-> id + 1]

\* characters of snippets
SnippetChars == {"a", "b"}

\* tb_snippet[:n]
Truncate(s, n) == SubSeq(s, 1, IF Len(s) > n THEN n ELSE Len(s))

\* stored LIKE '%term%': term occurs in stored
Like(stored, term) ==
    \E i \in 0..(Len(stored) - Len(term)) : SubSeq(stored, i + 1, i + Len(term)) = term

\* the order of an ascending scan of idx_time
IndexOrder_ascending(r1, r2) ==
    \/ r1.timestamp < r2.timestamp
    \/ (r1.timestamp = r2.timestamp /\ r1.id < r2.id)

\* ORDER BY timestamp DESC, served by a descending scan of idx_time, the index
\* on (timestamp, rowid) that init_db creates: r1 comes before r2
IndexOrder(r1, r2) ==
    \/ r1.timestamp > r2.timestamp
    \/ (r1.timestamp = r2.timestamp /\ r1.id > r2.id)

RECURSIVE OrderBy(_)
OrderBy(S) ==
    IF S = {} THEN << >>
    ELSE LET first == CHOOSE x \in S : \A y \in S \ {x} : IndexOrder(x, y)
         IN  << first >> \o OrderBy(S \ {first})

\* query_similar(tb_snippet, limit=limit), repo_id not given.  Without the
\* table the SELECT raises OperationalError.
query_similar(rows, ready, tb_snippet, limit) ==
    IF ~ready THEN [raised |-> "OperationalError", results |-> << >>]
    ELSE LET search_term == Truncate(tb_snippet, MaxSearchLen)
             selected == OrderBy({ rows[i] : i \in { j \in 1..Len(rows) :
                                      Like(rows[j].tb_snippet, search_term) } })
         IN  [raised |-> "none", results |-> Truncate(selected, limit)]

(***************************************************************************)
(* utils/normalize.py: normalize_traceback.  A line of the text is what    *)
(* the two regular expressions see in it:                                  *)
(*   frame  a Python frame  File "path", line N  and whether a comma       *)
(*          follows the number, as the first expression requires;          *)
(*   ref    the first  name:N  of the line with a name made of the         *)
(*          characters [a-zA-Z0-9_.-], which the fallback expression finds.*)
(* A key is a name and a line number; the canonical form is the sequence   *)
(* of its keys, each on a line of its own.                                 *)
(***************************************************************************)
None == [none |-> TRUE]

NormPaths ==
    { [dir |-> "/x/", base |-> "app.py"], [dir |-> "/y/", base |-> "app.py"],
      [dir |-> "", base |-> "<stdin>"], [dir |-> "/x/", base |-> "my app.py"] }

NormLinenos == {"1", "2"}

NormFrames == [path : NormPaths, lineno : NormLinenos, comma : BOOLEAN]

NormRefs == [name : {"app.py"}, lineno : NormLinenos]

NormLines ==
    { [frame |-> f, ref |-> rf] : f \in NormFrames \cup {None}, rf \in NormRefs \cup {None} }

\* os.path.basename
basename(path) == path.base

\* what ([a-zA-Z0-9_.-]+):(\d+) finds in the text "name:N": the last run of
\* such characters of the name, if it ends the name
FallbackName(name) ==
    CASE name = "app.py"    -> "app.py"
      [] name = "my app.py" -> "app.py"
      [] name = "<stdin>"   -> "none"

\* the line that a key of the canonical form makes when it is read as text
KeyLine(key) ==
    [frame |-> None,
     ref |-> IF FallbackName(key.name) = "none" THEN None
             ELSE [name |-> FallbackName(key.name), lineno |-> key.lineno]]

\* for line in lines: the Python expression, then the fallback expression.
\* match_fb.group(1) is a name and seen holds keys, so the test
\* `match_fb.group(1) not in seen` always passes.
RECURSIVE NormalizeLoop(_, _, _, _)
NormalizeLoop(lines, i, seen, normalized_lines) ==
    IF i > Len(lines) THEN normalized_lines
    ELSE LET line == lines[i]
             match == line.frame # None /\ line.frame.comma
             key == [name |-> basename(line.frame.path), lineno |-> line.frame.lineno]
             add1 == match /\ key \notin seen
             seen1 == IF add1 THEN seen \cup {key} ELSE seen
             lines1 == IF add1 THEN Append(normalized_lines, key) ELSE normalized_lines
             match_fb == line.ref # None
             add2 == match_fb /\ line.ref \notin seen1
             seen2 == IF add2 THEN seen1 \cup {line.ref} ELSE seen1
             lines2 == IF add2 THEN Append(lines1, line.ref) ELSE lines1
         IN  NormalizeLoop(lines, i + 1, seen2, lines2)

\* '\n'.join(normalized_lines): the keys with a newline between them
RECURSIVE Join(_)
Join(keys) ==
    IF keys = << >> THEN << >>
    ELSE IF Len(keys) = 1 THEN << keys[1] >>
    ELSE << keys[1], "newline" >> \o Join(Tail(keys))

\* hashlib.sha256(...).hexdigest(): distinct texts have distinct digests
sha256(text) == << "sha256", text >>

\* normalize_traceback(tb)
normalize_traceback(lines) ==
    LET normalized_lines == NormalizeLoop(lines, 1, {}, << >>)
        norm_tb == Join(normalized_lines)
    IN  [normalized_lines |-> normalized_lines,
         tb_hash |-> sha256(norm_tb),
         tb_snippet |-> Truncate(norm_tb, MaxSnippetUnits)]

(***************************************************************************)
(* core/project.py: the profile cache.  A path names a root in one of two  *)
(* spellings (absolute, or relative to the working directory); a profile   *)
(* is the root scanned and the version of the directory that the scan saw. *)
(* get_project_profile is four steps of a thread: the test of line 563,    *)
(* the scan, the store of line 564 and the load of line 565; no lock is    *)
(* held between them.                                                      *)
(***************************************************************************)
Roots == 1..MaxRoots

Threads == 1..MaxThreads

ProjectPaths == [root : Roots, spelling : {"absolute", "relative"}]

NoProfile == [root |-> 0, version |-> 0]

EmptyProjectCache == [r \in Roots |-> NoProfile]

\* os.path.abspath
abspath(path) == path.root

scan_project(root, dirs) == [root |-> root, version |-> dirs[root]]

\* the test of line 563 when it always asks for a scan
NeedScan_always(cache, abs_path, force_rescan) == TRUE

\* abs_path not in _project_cache or force_rescan
NeedScan(cache, abs_path, force_rescan) ==
    cache[abs_path] = NoProfile \/ force_rescan

IdleThread ==
    [pc |-> "idle", fn |-> "none", path |-> [root |-> 0, spelling |-> "absolute"],
     force_rescan |-> FALSE, abs_path |-> 0, profile |-> NoProfile,
     result |-> NoProfile, raised |-> "none", scanned |-> FALSE,
     before |-> EmptyProjectCache]

(***************************************************************************)
(* core/watcher.py: Sentinel.  The watched file is the sequence of pieces  *)
(* written to it: a piece is a whole line, or the head of a line (a write  *)
(* that ends inside the line) or its tail.  A line names its traceback and *)
(* its kind: "header", "frame" or "error".                                 *)
(***************************************************************************)
WatchThreads == {"observer", "main"}

\* Sentinel.__init__, and start() with nothing written yet
NewSentinel == [buffer |-> << >>, in_traceback |-> FALSE, error_count |-> 0, file_pos |-> 0]

NoLine == [tb |-> 0, kind |-> "none", part |-> "whole"]

IdleWatch(t) ==
    [pc |-> IF t = "main" THEN "sleep" ELSE "idle", line |-> NoLine,
     text |-> << >>, n |-> 0, site |-> "none", pos |-> 0]

Piece(l, part) == [tb |-> l.tb, kind |-> l.kind, part |-> part]

\* the lines of traceback n: header line, frame lines, final error line
TracebackLines(n) ==
    << [tb |-> n, kind |-> "header"] >>
    \o [i \in 1..MaxTraceFrames |-> [tb |-> n, kind |-> "frame"]]
    \o << [tb |-> n, kind |-> "error"] >>

RECURSIVE WrittenLines(_)
WrittenLines(n) ==
    IF n = 0 THEN << >> ELSE WrittenLines(n - 1) \o TracebackLines(n)

\* lines of the file that are complete
Completed(file) ==
    Cardinality({ i \in 1..Len(file) : file[i].part \in {"whole", "tail"} })

\* TRACEBACK_START.match(stripped): the text must begin the line
TRACEBACK_START(line) == line.kind = "header" /\ line.part = "whole"

\* stripped.startswith(" "): a frame line, or the head of one
StartsWithSpace(line) == line.kind = "frame" /\ line.part \in {"whole", "head"}

\* lines 130-131: a line that is not indented and is no header ends the traceback
EndsTraceback(line) == ~StartsWithSpace(line) /\ ~TRACEBACK_START(line)

(***************************************************************************)
(* core/chaining.py: parse_exception_chain.  A text is the sequence of its *)
(* parts: "text" (lines of a traceback), "blank" (whitespace only) and the *)
(* separator lines.  A link is the range of parts that its stripped text   *)
(* covers, with its relationship and its index.                            *)
(***************************************************************************)
\* a separator line is named by the relationship it announces
PySeparators == {"direct_cause", "implicit_context"}
ChainParts == {"text", "blank", "direct_cause", "implicit_context", "caused_by"}

\* block.strip() is not empty
NonBlank(toks, a, b) == \E i \in a..b : toks[i] # "blank"

\* the range left of toks[a..b] by strip()
StripFrom(toks, a, b) ==
    CHOOSE i \in a..b : toks[i] # "blank" /\ \A j \in a..(i - 1) : toks[j] = "blank"
StripTo(toks, a, b) ==
    CHOOSE i \in a..b : toks[i] # "blank" /\ \A j \in (i + 1)..b : toks[j] = "blank"

ChainLink(toks, a, b, relationship, index) ==
    IF NonBlank(toks, a, b)
    THEN [from |-> StripFrom(toks, a, b), to |-> StripTo(toks, a, b),
          relationship |-> relationship, index |-> index]
    ELSE [from |-> 1, to |-> 0, relationship |-> relationship, index |-> index]

\* the single link made of the whole text
WholeLink(toks) == << ChainLink(toks, 1, Len(toks), "root", 0) >>

\* positions of the parts of kinds, in text order
RECURSIVE Positions(_, _, _)
Positions(toks, kinds, i) ==
    IF i > Len(toks) THEN << >>
    ELSE (IF toks[i] \in kinds THEN << i >> ELSE << >>) \o Positions(toks, kinds, i + 1)

\* the loop of _parse_python_chain with the relationship of the boundary
\* that follows the block, instead of the one that precedes it
RECURSIVE PythonBlocks_following(_, _, _, _, _)
PythonBlocks_following(toks, boundaries, i, prev_end, links) ==
    IF i > Len(boundaries)
    THEN IF NonBlank(toks, prev_end, Len(toks))
         THEN Append(links, ChainLink(toks, prev_end, Len(toks),
                                      toks[boundaries[Len(boundaries)]], Len(links)))
         ELSE links
    ELSE LET start == boundaries[i]
             rel == IF i = 1 THEN "root" ELSE toks[boundaries[i]]
             grown == IF NonBlank(toks, prev_end, start - 1)
                      THEN Append(links, ChainLink(toks, prev_end, start - 1, rel, Len(links)))
                      ELSE links
         IN  PythonBlocks_following(toks, boundaries, i + 1, start + 1, grown)

\* the loop over the boundaries and the final block
RECURSIVE PythonBlocks(_, _, _, _, _)
PythonBlocks(toks, boundaries, i, prev_end, links) ==
    IF i > Len(boundaries)
    THEN IF NonBlank(toks, prev_end, Len(toks))
         THEN Append(links, ChainLink(toks, prev_end, Len(toks),
                                      toks[boundaries[Len(boundaries)]], Len(links)))
         ELSE links
    ELSE LET start == boundaries[i]
             rel == IF i = 1 THEN "root" ELSE toks[boundaries[i - 1]]
             grown == IF NonBlank(toks, prev_end, start - 1)
                      THEN Append(links, ChainLink(toks, prev_end, start - 1, rel, Len(links)))
                      ELSE links
         IN  PythonBlocks(toks, boundaries, i + 1, start + 1, grown)

parse_python_chain(toks) ==
    LET boundaries == Positions(toks, PySeparators, 1)
    IN  IF boundaries = << >> THEN WholeLink(toks)
        ELSE PythonBlocks(toks, boundaries, 1, 1, << >>)

\* the loop over the parts that "Caused by:" splits the text into; part i
\* (counted from 0) starts at prev_end
RECURSIVE CausedByParts(_, _, _, _, _)
CausedByParts(toks, boundaries, i, prev_end, links) ==
    LET last == IF i + 1 > Len(boundaries) THEN Len(toks) ELSE boundaries[i + 1] - 1
        rel == IF i = 0 THEN "root" ELSE "caused_by"
        grown == IF NonBlank(toks, prev_end, last)
                 THEN Append(links, ChainLink(toks, prev_end, last, rel, Len(links)))
                 ELSE links
    IN  IF i + 1 > Len(boundaries) THEN grown
        ELSE CausedByParts(toks, boundaries, i + 1, last + 2, grown)

parse_node_chain(toks) ==
    LET boundaries == Positions(toks, {"caused_by"}, 1)
    IN  IF boundaries = << >> THEN WholeLink(toks)
        ELSE CausedByParts(toks, boundaries, 0, 1, << >>)

parse_rust_chain(toks) ==
    LET boundaries == Positions(toks, {"caused_by"}, 1)
    IN  IF boundaries = << >> THEN WholeLink(toks)
        ELSE CausedByParts(toks, boundaries, 0, 1, << >>)

parse_exception_chain(lang, toks) ==
    IF lang = "python" THEN parse_python_chain(toks)
    ELSE IF lang = "node" THEN parse_node_chain(toks)
    ELSE IF lang = "rust" THEN parse_rust_chain(toks)
    ELSE WholeLink(toks)

(***************************************************************************)
(* core/batch.py: extract_tracebacks.  A text is the sequence of its       *)
(* lines, each named by what the module's regular expressions see in it:   *)
(*   header      Traceback (most recent call last):       (PY_TB_START)    *)
(*   frame       File "...", line N, in f                                  *)
(*   code        a source line printed under a frame                       *)
(*   error       an error line that ERROR_LINE matches (ValueError: x)     *)
(*   bare_error  an error line that it does not match (AssertionError)     *)
(*   sep         a Python chain separator                 (PY_CHAIN_SEP)   *)
(*   at          a Node frame line (    at f (a.js:1:2))                   *)
(*   rust_start  thread 'main' panicked at ...            (RUST_PANIC_START)*)
(*   noise       any other log line                                        *)
(*   blank       whitespace only                                           *)
(* A block is the range of lines that the returned string covers.          *)
(***************************************************************************)
PythonLines == {"header", "frame", "error", "bare_error", "sep", "blank"}
BatchLines == PythonLines \cup {"code", "at", "rust_start", "noise"}

Max(S) == CHOOSE x \in S : \A y \in S : y <= x

\* _trim_trailing_noise on lines[a..b]: the last line of the trimmed block
trim_trailing_noise(lines, a, b) ==
    LET stops == { i \in a..b : lines[i] \in {"error", "frame"} }
    IN  IF stops = {} THEN b ELSE Max(stops)

\* text[start:end].strip(), _trim_trailing_noise, if block: append
Block(lines, start, last) ==
    IF NonBlank(lines, start, last)
    THEN LET a == StripFrom(lines, start, last)
             b == StripTo(lines, start, last)
         IN  << [from |-> a, to |-> trim_trailing_noise(lines, a, b)] >>
    ELSE << >>

\* PY_CHAIN_SEP.search(text[starts[i - 1]:starts[i]])
SepBetween(lines, a, b) == \E j \in a..(b - 1) : lines[j] = "sep"

\* the grouping loop and the extraction loop of _extract_python_blocks
RECURSIVE PythonGroups(_, _, _, _, _)
PythonGroups(lines, starts, i, current_start, blocks) ==
    IF i > Len(starts)
    THEN blocks \o Block(lines, current_start, Len(lines))
    ELSE IF SepBetween(lines, starts[i - 1], starts[i])
         THEN PythonGroups(lines, starts, i + 1, current_start, blocks)
         ELSE PythonGroups(lines, starts, i + 1, starts[i],
                           blocks \o Block(lines, current_start, starts[i] - 1))

extract_python_blocks(lines, starts) ==
    IF starts = << >> THEN << >>
    ELSE PythonGroups(lines, starts, 2, starts[1], << >>)

RECURSIVE GenericBlocks(_, _, _, _)
GenericBlocks(lines, starts, i, blocks) ==
    IF i > Len(starts) THEN blocks
    ELSE LET last == IF i + 1 <= Len(starts) THEN starts[i + 1] - 1 ELSE Len(lines)
         IN  GenericBlocks(lines, starts, i + 1, blocks \o Block(lines, starts[i], last))

extract_generic_blocks(lines, starts) == GenericBlocks(lines, starts, 1, << >>)

\* NODE_ERROR_START: an error line followed by an "at" line
RECURSIVE NodeStarts(_, _)
NodeStarts(lines, i) ==
    IF i >= Len(lines) THEN << >>
    ELSE (IF lines[i] = "error" /\ lines[i + 1] = "at" THEN << i >> ELSE << >>)
         \o NodeStarts(lines, i + 1)

extract_tracebacks(lines) ==
    LET py_starts == Positions(lines, {"header"}, 1)
        node_starts == NodeStarts(lines, 1)
        rust_starts == Positions(lines, {"rust_start"}, 1)
    IN  IF py_starts # << >> THEN extract_python_blocks(lines, py_starts)
        ELSE IF node_starts # << >> THEN extract_generic_blocks(lines, node_starts)
        ELSE IF rust_starts # << >> THEN extract_generic_blocks(lines, rust_starts)
        ELSE << >>

(***************************************************************************)
(* State machine.                                                          *)
(***************************************************************************)
NoReq ==
    [trace |-> EmptyTrace, deep |-> FALSE, haiku |-> FALSE, project_path |-> FALSE,
     no_git |-> FALSE, use_memory |-> FALSE, resp |-> NoResponse]

NoOutcome ==
    [raised |-> "none", report |-> NoReport, effects |-> << >>, reads |-> << >>,
     git |-> << >>]

NoChain == [called |-> FALSE, lang |-> "unknown", toks |-> << >>, links |-> << >>]

NoBatch == [called |-> FALSE, text |-> << >>, blocks |-> << >>]

NoBuilt == [called |-> FALSE, llm_result |-> NoneResult, loc |-> NoLocation,
            report |-> NoReport]

NoRet == [fn |-> "none"]

NoLlmOut == [called |-> FALSE, deep |-> FALSE, haiku |-> FALSE, kind |-> "none",
             result |-> NoneResult, calls |-> << >>]

NoInsert == [called |-> FALSE, tb_hash |-> 0, payload |-> 0, success |-> FALSE,
             inserted |-> FALSE, raised |-> "none", ready |-> FALSE,
             before |-> << >>]

InitRest ==
    /\ pc = "idle"
    /\ req = NoReq
    /\ outcome = NoOutcome
    /\ llmOut = NoLlmOut
    /\ analyses = << >>
    /\ nextId = 1
    /\ lastInsert = NoInsert
    /\ linecache = EmptyCache
    /\ chain = NoChain
    /\ batch = NoBatch
    /\ built = NoBuilt
    /\ ret = NoRet
    /\ clock = 0
    /\ project_cache = EmptyProjectCache
    /\ projects = [r \in Roots |-> 1]
    /\ last_write = EmptyProjectCache
    /\ th = [t \in Threads |-> IdleThread]
    /\ logfile = << >>
    /\ sentinel = NewSentinel
    /\ wt = [t \in WatchThreads |-> IdleWatch(t)]
    /\ analysed = << >>
    /\ flushes = 0

\* a caller invokes analyze() and receives its report or its exception;
\* resp is what a provider answers if this call reaches it
Analyze(t, deep, haiku, project_path, no_git, use_memory, resp) ==
    /\ pc = "idle"
    /\ pc' = "returned"
    /\ req' = [trace |-> t, deep |-> deep, haiku |-> haiku,
               project_path |-> project_path, no_git |-> no_git,
               use_memory |-> use_memory, resp |-> resp]
    /\ LET r == analyze(t, deep, haiku, project_path, no_git, use_memory,
                        env, dbReady, resp, disk, linecache)
       IN  /\ outcome' = [raised |-> r.raised, report |-> r.report,
                          effects |-> r.effects, reads |-> r.reads, git |-> r.git]
           /\ linecache' = r.linecache
    /\ UNCHANGED <<env, dbReady, llmOut, analyses, nextId, lastInsert,
                   disk, chain, batch, built, ret, clock, projectVars, watchVars>>

\* the caller is done with the result and may call again
Done ==
    /\ pc = "returned"
    /\ pc' = "idle"
    /\ req' = NoReq
    /\ outcome' = NoOutcome
    /\ chain' = NoChain
    /\ batch' = NoBatch
    /\ built' = NoBuilt
    /\ ret' = NoRet
    /\ UNCHANGED <<env, dbReady, llmOut, analyses, nextId, lastInsert,
                   disk, linecache, clock, projectVars, watchVars>>

\* a direct call of the gateway's public entry point
AnalyzeWithLlm(deep, haiku, resp) ==
    /\ llmOut' = [called |-> TRUE, deep |-> deep, haiku |-> haiku, kind |-> resp.kind]
                 @@ analyze_with_llm(env, deep, haiku, resp)
    /\ UNCHANGED <<env, dbReady, pc, req, outcome, analyses, nextId, lastInsert,
                   disk, linecache, chain, batch, built, ret, clock, projectVars, watchVars>>

\* init_db: CREATE TABLE IF NOT EXISTS, rows are kept
InitDb ==
    /\ dbReady' = TRUE
    /\ UNCHANGED <<env, pc, req, outcome, llmOut, analyses, nextId, lastInsert,
                   disk, linecache, chain, batch, built, ret, clock, projectVars, watchVars>>

InsertAnalysis(h, p, success, snippet) ==
    LET r == insert_analysis(analyses, nextId, dbReady, h, p, success, snippet, clock)
    IN  /\ analyses' = r.rows
        /\ nextId' = r.id
        /\ lastInsert' = [called |-> TRUE, tb_hash |-> h, payload |-> p,
                          success |-> success, inserted |-> r.inserted,
                          raised |-> r.raised, ready |-> dbReady,
                          before |-> analyses]
        /\ UNCHANGED <<env, dbReady, pc, req, outcome, llmOut,
                       disk, linecache, chain, batch, built, ret, clock, projectVars, watchVars>>

\* a source file is written (or created) between two calls
EditFile(f) ==
    /\ disk[f] < MaxVersion
    /\ disk' = [disk EXCEPT ![f] = @ + 1]
    /\ UNCHANGED <<env, dbReady, pc, req, outcome, llmOut, analyses, nextId,
                   lastInsert, linecache, chain, batch, built, ret, clock, projectVars, watchVars>>

\* a call of parse_exception_chain on a text detected as lang
ParseExceptionChain(lang, toks) ==
    /\ pc = "idle"
    /\ pc' = "returned"
    /\ chain' = [called |-> TRUE, lang |-> lang, toks |-> toks,
                 links |-> parse_exception_chain(lang, toks)]
    /\ UNCHANGED <<env, dbReady, req, outcome, llmOut, analyses, nextId,
                   lastInsert, disk, linecache, batch, built, ret, clock, projectVars, watchVars>>

\* a call of extract_tracebacks on a text
ExtractTracebacks(lines) ==
    /\ pc = "idle"
    /\ pc' = "returned"
    /\ batch' = [called |-> TRUE, text |-> lines, blocks |-> extract_tracebacks(lines)]
    /\ UNCHANGED <<env, dbReady, req, outcome, llmOut, analyses, nextId,
                   lastInsert, disk, linecache, chain, built, ret, clock, projectVars, watchVars>>

\* a call of _build_report_from_llm on a dict that passed the test
\* `llm_result and "root_cause" in llm_result`
BuildReportFromLlm(llm_result, loc) ==
    /\ pc = "idle"
    /\ pc' = "returned"
    /\ Usable(llm_result)
    /\ built' = [called |-> TRUE, llm_result |-> llm_result, loc |-> loc,
                 report |-> build_report_from_llm(llm_result, loc)]
    /\ UNCHANGED <<env, dbReady, req, outcome, llmOut, analyses, nextId,
                   lastInsert, disk, linecache, chain, batch, ret, clock, projectVars, watchVars>>

\* a call of detect_language on a text that matches the signatures `found`
DetectLanguage(found) ==
    /\ pc = "idle"
    /\ pc' = "returned"
    /\ ret' = [fn |-> "detect_language", args |-> found, calls |-> 1,
               result |-> detect_language(found), again |-> "none"]
    /\ UNCHANGED <<env, dbReady, req, outcome, llmOut, analyses, nextId,
                   lastInsert, disk, linecache, chain, batch, built, clock, projectVars, watchVars>>

\* the caller calls detect_language once more on the same text
DetectAgain ==
    /\ pc = "returned"
    /\ ret.fn = "detect_language"
    /\ ret.calls = 1
    /\ ret' = [ret EXCEPT !.calls = 2, !.again = detect_language(ret.args)]
    /\ UNCHANGED <<env, dbReady, pc, req, outcome, llmOut, analyses, nextId,
                   lastInsert, disk, linecache, chain, batch, built, clock, projectVars, watchVars>>

\* a call of read_source_window(file_path, line_number, radius)
ReadSourceWindow(file, line_number, radius) ==
    /\ pc = "idle"
    /\ pc' = "returned"
    /\ ret' = [fn |-> "read_source_window",
               args |-> [file |-> file, line_number |-> line_number, radius |-> radius],
               raised |-> "none",
               result |-> SourceContext(file, line_number, radius)]
    /\ UNCHANGED <<env, dbReady, req, outcome, llmOut, analyses, nextId,
                   lastInsert, disk, linecache, chain, batch, built, clock, projectVars, watchVars>>

\* a second passes on the database clock
Tick ==
    /\ clock < MaxClock
    /\ clock' = clock + 1
    /\ UNCHANGED <<env, dbReady, pc, req, outcome, llmOut, analyses, nextId,
                   lastInsert, disk, linecache, chain, batch, built, ret, projectVars, watchVars>>

\* a call of query_similar(tb_snippet, limit=limit)
QuerySimilar(tb_snippet, limit) ==
    /\ pc = "idle"
    /\ pc' = "returned"
    /\ LET q == query_similar(analyses, dbReady, tb_snippet, limit)
       IN  ret' = [fn |-> "query_similar",
                   args |-> [tb_snippet |-> tb_snippet, limit |-> limit],
                   raised |-> q.raised, result |-> q.results]
    /\ UNCHANGED <<env, dbReady, req, outcome, llmOut, analyses, nextId,
                   lastInsert, disk, linecache, chain, batch, built, clock, projectVars, watchVars>>

\* a call of normalize_traceback on a text
NormalizeTraceback(lines) ==
    /\ pc = "idle"
    /\ pc' = "returned"
    /\ ret' = [fn |-> "normalize_traceback", args |-> lines, calls |-> 1,
               result |-> normalize_traceback(lines),
               again |-> normalize_traceback(<< >>)]
    /\ UNCHANGED <<env, dbReady, req, outcome, llmOut, analyses, nextId,
                   lastInsert, disk, linecache, chain, batch, built, clock, projectVars, watchVars>>

\* the caller normalizes the canonical form that the first call built
NormalizeAgain ==
    /\ pc = "returned"
    /\ ret.fn = "normalize_traceback"
    /\ ret.calls = 1
    /\ LET canonical == ret.result.normalized_lines
           text == [i \in 1..Len(canonical) |-> KeyLine(canonical[i])]
       IN  ret' = [ret EXCEPT !.calls = 2, !.again = normalize_traceback(text)]
    /\ UNCHANGED <<env, dbReady, pc, req, outcome, llmOut, analyses, nextId,
                   lastInsert, disk, linecache, chain, batch, built, clock, projectVars, watchVars>>

\* _match_pattern(error_text, lang), called on its own; `matching` is the set
\* of patterns of all tables that re.search finds in error_text
MatchPattern(matching, lang) ==
    /\ pc = "idle"
    /\ pc' = "returned"
    /\ LET m == match_pattern(matching, lang)
       IN  ret' = [fn |-> "match_pattern", args |-> [matching |-> matching, lang |-> lang],
                   raised |-> m.raised,
                   result |-> IF m.raised # "none" \/ ~m.matched THEN None
                              ELSE [none |-> FALSE, pattern |-> m.pattern,
                                    severity |-> m.severity]]
    /\ UNCHANGED <<env, dbReady, req, outcome, llmOut, analyses, nextId,
                   lastInsert, disk, linecache, chain, batch, built, clock, projectVars, watchVars>>

restVars == <<env, dbReady, pc, req, outcome, llmOut, analyses, nextId, lastInsert,
              disk, linecache, chain, batch, built, ret, clock, projectVars>>

\* the writing program appends the next line of its tracebacks, whole, or
\* only its head, or the tail of the line it left unfinished
Write ==
    /\ Completed(logfile) < Len(WrittenLines(MaxTracebacks))
    /\ LET l == WrittenLines(MaxTracebacks)[Completed(logfile) + 1]
           started == logfile # << >> /\ logfile[Len(logfile)].part = "head"
           heads == Cardinality({ i \in 1..Len(logfile) : logfile[i].part = "head" })
       IN  \E part \in (IF started THEN {"tail"}
                        ELSE IF heads < MaxSplitLines THEN {"whole", "head"}
                        ELSE {"whole"}) :
                logfile' = Append(logfile, Piece(l, part))
    /\ UNCHANGED <<sentinel, wt, analysed, flushes, restVars>>

\* _LogHandler.on_modified -> _read_new_lines, lines 137-138: open and seek
OnModified ==
    /\ wt["observer"].pc = "idle"
    /\ sentinel.file_pos < Len(logfile)
    /\ wt' = [wt EXCEPT !["observer"].pc = "next",
                        !["observer"].pos = sentinel.file_pos]
    /\ UNCHANGED <<logfile, sentinel, analysed, flushes, restVars>>

\* _read_new_lines, lines 139-141: the next line of the file (an unfinished
\* last line is read as a line), or at the end self._file_pos = f.tell()
ReadLine ==
    /\ wt["observer"].pc = "next"
    /\ LET me == wt["observer"]
       IN  IF me.pos < Len(logfile)
           THEN LET first == logfile[me.pos + 1]
                    joined == first.part = "head" /\ me.pos + 2 <= Len(logfile)
                    line == IF joined THEN Piece(first, "whole") ELSE first
                IN  /\ wt' = [wt EXCEPT !["observer"] =
                                [me EXCEPT !.pc = "process", !.line = line,
                                           !.pos = me.pos + (IF joined THEN 2 ELSE 1)]]
                    /\ UNCHANGED sentinel
           ELSE /\ sentinel' = [sentinel EXCEPT !.file_pos = me.pos]
                /\ wt' = [wt EXCEPT !["observer"] = IdleWatch("observer")]
    /\ UNCHANGED <<logfile, analysed, flushes, restVars>>

\* _process_line, lines 119-128: which branch the line takes
ProcessLine ==
    /\ wt["observer"].pc = "process"
    /\ LET me == wt["observer"]
           to == IF TRACEBACK_START(me.line)
                 THEN IF sentinel.in_traceback /\ sentinel.buffer # << >>
                      THEN "flush74" ELSE "start124"
                 ELSE IF sentinel.in_traceback THEN "append129" ELSE "next"
       IN  wt' = [wt EXCEPT !["observer"] =
                    [me EXCEPT !.pc = to,
                               !.site = IF to = "flush74" THEN "start124" ELSE "none",
                               !.line = IF to = "next" THEN NoLine ELSE me.line]]
    /\ UNCHANGED <<logfile, sentinel, analysed, flushes, restVars>>

\* line 124: self._in_traceback = True
Start124 ==
    /\ wt["observer"].pc = "start124"
    /\ sentinel' = [sentinel EXCEPT !.in_traceback = TRUE]
    /\ wt' = [wt EXCEPT !["observer"].pc = "start125", !["observer"].site = "none"]
    /\ UNCHANGED <<logfile, analysed, flushes, restVars>>

\* line 125: self._buffer = [stripped]
Start125 ==
    /\ wt["observer"].pc = "start125"
    /\ sentinel' = [sentinel EXCEPT !.buffer = << wt["observer"].line >>]
    /\ wt' = [wt EXCEPT !["observer"].pc = "next", !["observer"].line = NoLine]
    /\ UNCHANGED <<logfile, analysed, flushes, restVars>>

\* lines 129-132: self._buffer.append(stripped), then flush if the line ends
\* the traceback
Append129 ==
    /\ wt["observer"].pc = "append129"
    /\ LET me == wt["observer"]
       IN  /\ sentinel' = [sentinel EXCEPT !.buffer = Append(@, me.line)]
           /\ wt' = [wt EXCEPT !["observer"] =
                        [me EXCEPT !.pc = IF EndsTraceback(me.line) THEN "flush74" ELSE "next",
                                   !.site = IF EndsTraceback(me.line) THEN "next" ELSE "none",
                                   !.line = NoLine]]
    /\ UNCHANGED <<logfile, analysed, flushes, restVars>>

\* _start_watchdog, lines 204-207: after the sleep, flush a pending traceback
MainWake ==
    /\ wt["main"].pc = "sleep"
    /\ sentinel.in_traceback /\ sentinel.buffer # << >>
    /\ wt' = [wt EXCEPT !["main"].pc = "flush74", !["main"].site = "sleep"]
    /\ UNCHANGED <<logfile, sentinel, analysed, flushes, restVars>>

\* _flush_traceback, lines 74-75: if not self._buffer: return
Flush74(t) ==
    /\ wt[t].pc = "flush74"
    /\ wt' = [wt EXCEPT ![t].pc = IF sentinel.buffer = << >> THEN wt[t].site ELSE "flush77",
                        ![t].site = IF sentinel.buffer = << >> THEN "none" ELSE wt[t].site]
    /\ UNCHANGED <<logfile, sentinel, analysed, flushes, restVars>>

\* line 77: traceback_text = "\n".join(self._buffer)
Flush77(t) ==
    /\ wt[t].pc = "flush77"
    /\ wt' = [wt EXCEPT ![t].pc = "flush78", ![t].text = sentinel.buffer]
    /\ UNCHANGED <<logfile, sentinel, analysed, flushes, restVars>>

\* line 78: self._buffer = []
Flush78(t) ==
    /\ wt[t].pc = "flush78"
    /\ sentinel' = [sentinel EXCEPT !.buffer = << >>]
    /\ wt' = [wt EXCEPT ![t].pc = "flush79"]
    /\ UNCHANGED <<logfile, analysed, flushes, restVars>>

\* line 79: self._in_traceback = False
Flush79(t) ==
    /\ wt[t].pc = "flush79"
    /\ sentinel' = [sentinel EXCEPT !.in_traceback = FALSE]
    /\ wt' = [wt EXCEPT ![t].pc = "flush80"]
    /\ UNCHANGED <<logfile, analysed, flushes, restVars>>

\* line 80, self._error_count += 1: the read of the attribute
Flush80Load(t) ==
    /\ wt[t].pc = "flush80"
    /\ wt' = [wt EXCEPT ![t].pc = "flush80store", ![t].n = sentinel.error_count]
    /\ UNCHANGED <<logfile, sentinel, analysed, flushes, restVars>>

\* line 80, self._error_count += 1: the write of the attribute
Flush80Store(t) ==
    /\ wt[t].pc = "flush80store"
    /\ sentinel' = [sentinel EXCEPT !.error_count = wt[t].n + 1]
    /\ flushes' = flushes + 1
    /\ wt' = [wt EXCEPT ![t].pc = "flushed", ![t].n = 0]
    /\ UNCHANGED <<logfile, analysed, restVars>>

\* lines 82-93: analyze(traceback_text, ...) returns and the report is shown;
\* the call returns to the place it was made from
AnalyzeText(t) ==
    /\ wt[t].pc = "flushed"
    /\ analysed' = Append(analysed, wt[t].text)
    /\ wt' = [wt EXCEPT ![t].pc = wt[t].site, ![t].site = "none", ![t].text = << >>]
    /\ UNCHANGED <<logfile, sentinel, flushes, restVars>>

otherVars == <<env, dbReady, pc, req, outcome, llmOut, analyses, nextId, lastInsert,
               disk, linecache, chain, batch, built, ret, clock, watchVars>>

\* thread t enters get_project_profile(path, force_rescan): lines 562-563
GetProjectProfile(t, path, force_rescan) ==
    /\ th[t].pc = "idle"
    /\ th' = [th EXCEPT ![t] =
                [IdleThread EXCEPT
                    !.pc = IF NeedScan(project_cache, abspath(path), force_rescan)
                           THEN "scan" ELSE "return",
                    !.fn = "get_project_profile",
                    !.path = path,
                    !.force_rescan = force_rescan,
                    !.abs_path = abspath(path),
                    !.before = project_cache]]
    /\ UNCHANGED <<otherVars, project_cache, projects, last_write>>

\* line 564, right-hand side: scan_project(abs_path)
Scan(t) ==
    /\ th[t].pc = "scan"
    /\ th' = [th EXCEPT ![t].pc = "store",
                        ![t].scanned = TRUE,
                        ![t].profile = scan_project(th[t].abs_path, projects)]
    /\ UNCHANGED <<otherVars, project_cache, projects, last_write>>

\* line 564, assignment: _project_cache[abs_path] = ...
Store(t) ==
    /\ th[t].pc = "store"
    /\ project_cache' = [project_cache EXCEPT ![th[t].abs_path] = th[t].profile]
    /\ last_write' = [last_write EXCEPT ![th[t].abs_path] = th[t].profile]
    /\ th' = [th EXCEPT ![t].pc = "return"]
    /\ UNCHANGED <<otherVars, projects>>

\* line 565: return _project_cache[abs_path], KeyError if the key is gone
Load(t) ==
    /\ th[t].pc = "return"
    /\ th' = [th EXCEPT ![t].pc = "done",
                        ![t].result = project_cache[th[t].abs_path],
                        ![t].raised = IF project_cache[th[t].abs_path] = NoProfile
                                      THEN "KeyError" ELSE "none"]
    /\ UNCHANGED <<otherVars, project_cache, projects, last_write>>

\* thread t calls clear_project_cache()
ClearProjectCache(t) ==
    /\ th[t].pc = "idle"
    /\ project_cache' = EmptyProjectCache
    /\ last_write' = EmptyProjectCache
    /\ th' = [th EXCEPT ![t] = [IdleThread EXCEPT !.pc = "done",
                                                  !.fn = "clear_project_cache",
                                                  !.before = project_cache]]
    /\ UNCHANGED <<otherVars, projects>>

\* the caller in thread t is done with the result
ThreadDone(t) ==
    /\ th[t].pc = "done"
    /\ th' = [th EXCEPT ![t] = IdleThread]
    /\ UNCHANGED <<otherVars, project_cache, projects, last_write>>

\* the files of a project directory change
ModifyProject(root) ==
    /\ projects[root] < MaxProjectVersion
    /\ projects' = [projects EXCEPT ![root] = @ + 1]
    /\ UNCHANGED <<otherVars, project_cache, last_write, th>>

(***************************************************************************)
(* Spec: the analyzer cascade under every environment.                     *)
(***************************************************************************)
Init ==
    /\ env \in Envs
    /\ dbReady \in BOOLEAN
    /\ disk = [f \in AllFiles |-> 1]
    /\ InitRest

AnalyzeAny ==
    /\ pc = "idle"
    /\ \E t \in CascadeTraces, deep \in BOOLEAN, haiku \in BOOLEAN,
       project_path \in BOOLEAN, no_git \in BOOLEAN, use_memory \in BOOLEAN,
       resp \in Responses :
        Analyze(t, deep, haiku, project_path, no_git, use_memory, resp)

Next == AnalyzeAny \/ Done

Spec == Init /\ [][Next]_vars

(***************************************************************************)
(* SpecPattern: analyze() offline, no model flag and no provider, on       *)
(* traces that match several patterns.                                     *)
(***************************************************************************)
Offline(e) == ~get_grok_client(e) /\ ~get_anthropic_client(e)

InitPattern ==
    /\ env \in { e \in Envs : Offline(e) }
    /\ dbReady \in BOOLEAN
    /\ disk = [f \in AllFiles |-> 1]
    /\ InitRest

AnalyzeOffline ==
    /\ pc = "idle"
    /\ \E t \in PatternTraces, use_memory \in BOOLEAN, resp \in {NoResponse} :
        Analyze(t, FALSE, FALSE, FALSE, TRUE, use_memory, resp)

NextPattern == AnalyzeOffline \/ Done

SpecPattern == InitPattern /\ [][NextPattern]_vars

(***************************************************************************)
(* SpecLlm: the gateway called directly.                                   *)
(***************************************************************************)
InitLlm ==
    /\ env \in Envs
    /\ dbReady = FALSE
    /\ disk = [f \in AllFiles |-> 1]
    /\ InitRest

NextLlm ==
    \E deep \in BOOLEAN, haiku \in BOOLEAN, resp \in Responses :
        AnalyzeWithLlm(deep, haiku, resp)

SpecLlm == InitLlm /\ [][NextLlm]_vars

(***************************************************************************)
(* SpecMemory: the memory store.                                           *)
(***************************************************************************)
InitMemory ==
    /\ env = [openai_sdk |-> FALSE, anthropic_sdk |-> FALSE,
              xai_key |-> FALSE, anthropic_key |-> FALSE]
    /\ dbReady = FALSE
    /\ disk = [f \in AllFiles |-> 1]
    /\ InitRest

InsertAny ==
    \E h \in Hashes, p \in Payloads, success \in BOOLEAN :
        InsertAnalysis(h, p, success, << "a" >>)

NextMemory == InitDb \/ InsertAny

SpecMemory == InitMemory /\ [][NextMemory]_vars

(***************************************************************************)
(* SpecSource: analyze() on traces with frames, over source files that are *)
(* written between the calls.                                              *)
(***************************************************************************)
Online(e) == get_grok_client(e) /\ get_anthropic_client(e)

\* no provider at all, or both providers
InitSource ==
    /\ env \in { e \in Envs : e.openai_sdk = e.xai_key /\ e.anthropic_sdk = e.anthropic_key
                              /\ (Offline(e) \/ Online(e)) }
    /\ dbReady = TRUE
    /\ disk \in [AllFiles -> 0..1]
    /\ InitRest

AnalyzeSource ==
    /\ pc = "idle"
    /\ \E t \in SourceTraces, deep \in BOOLEAN, haiku \in BOOLEAN :
        Analyze(t, deep, haiku, FALSE, TRUE, FALSE, NoResponse)

EditAny == \E f \in AllFiles : EditFile(f)

NextSource == AnalyzeSource \/ Done \/ EditAny

SpecSource == InitSource /\ [][NextSource]_vars

(***************************************************************************)
(* SpecChain: the chain splitter on every short text.                      *)
(***************************************************************************)
ChainLanguages == {"python", "node", "rust", "go"}

\* a text detected as python, node or rust holds a line with a signature
ChainTexts(lang) ==
    { toks \in SeqsUpTo(ChainParts, MaxChainLen) :
        lang \in {"python", "node", "rust"} => \E i \in 1..Len(toks) : toks[i] = "text" }

InitChain ==
    /\ env = [openai_sdk |-> FALSE, anthropic_sdk |-> FALSE,
              xai_key |-> FALSE, anthropic_key |-> FALSE]
    /\ dbReady = FALSE
    /\ disk = [f \in AllFiles |-> 1]
    /\ InitRest

ParseAny ==
    /\ pc = "idle"
    /\ \E lang \in ChainLanguages : \E toks \in ChainTexts(lang) :
        ParseExceptionChain(lang, toks)

NextChain == ParseAny \/ Done

SpecChain == InitChain /\ [][NextChain]_vars

(***************************************************************************)
(* SpecBatch: the batch extractor on every short text.                     *)
(***************************************************************************)
\* texts of up to n lines of the kinds given
BatchTexts(kinds, n) == SeqsUpTo(kinds, n)

ExtractAny ==
    /\ pc = "idle"
    /\ \/ \E lines \in BatchTexts(BatchLines, MaxBatchLines) : ExtractTracebacks(lines)
       \/ \E lines \in BatchTexts(PythonLines, MaxPythonLines) : ExtractTracebacks(lines)

NextBatch == ExtractAny \/ Done

SpecBatch == InitChain /\ [][NextBatch]_vars

(***************************************************************************)
(* SpecReport: the report builder on every dict the gateway can return.    *)
(***************************************************************************)
Locations ==
    { NoLocation } \cup { [file_path |-> f.file, line_number |-> f.line] : f \in Frames }

InitReport ==
    /\ env \in Envs
    /\ dbReady = FALSE
    /\ disk = [f \in AllFiles |-> 1]
    /\ InitRest

BuildAny ==
    /\ pc = "idle"
    /\ \E deep \in BOOLEAN, haiku \in BOOLEAN, resp \in Responses \cup ReportResponses,
          loc \in Locations :
        BuildReportFromLlm(analyze_with_llm(env, deep, haiku, resp).result, loc)

NextReport == BuildAny \/ Done

SpecReport == InitReport /\ [][NextReport]_vars

(***************************************************************************)
(* SpecContext: analyze() offline on traces of up to MaxContextFrames      *)
(* frames, with and without git context, over files that exist or not.     *)
(***************************************************************************)
ContextTraces(n) ==
    UNION { { [empty |-> FALSE, lang |-> l, whole |-> w, line |-> w, frames |-> fs] :
                w \in { {}, LastPatterns(l, 1), LastFormattable(l) },
                fs \in SeqsUpTo(Frames, n) } :
            l \in Languages \ {"unknown"} }

InitContext ==
    /\ env = [openai_sdk |-> FALSE, anthropic_sdk |-> FALSE,
              xai_key |-> FALSE, anthropic_key |-> FALSE]
    /\ dbReady = TRUE
    /\ disk \in [AllFiles -> 0..1]
    /\ InitRest

AnalyzeContext ==
    /\ pc = "idle"
    /\ \E t \in ContextTraces(MaxContextFrames), no_git \in BOOLEAN :
        Analyze(t, FALSE, FALSE, FALSE, no_git, FALSE, NoResponse)

NextContext == AnalyzeContext \/ Done

SpecContext == InitContext /\ [][NextContext]_vars

(***************************************************************************)
(* SpecDetect: detect_language on texts that match up to MaxSignatures     *)
(* signatures.                                                             *)
(***************************************************************************)
DetectAny ==
    /\ pc = "idle"
    /\ \E found \in SubsetsUpTo(Signatures, MaxSignatures) : DetectLanguage(found)

NextDetect == DetectAny \/ DetectAgain \/ Done

SpecDetect == InitChain /\ [][NextDetect]_vars

(***************************************************************************)
(* SpecWindow: read_source_window on every small file, line and radius.    *)
(***************************************************************************)
ReadAny ==
    /\ pc = "idle"
    /\ \E file \in SourceFiles, line_number \in 0..MaxLine, radius \in 0..MaxRadius :
        ReadSourceWindow(file, line_number, radius)

NextWindow == ReadAny \/ Done

SpecWindow == InitChain /\ [][NextWindow]_vars

(***************************************************************************)
(* SpecRecall: rows recorded over time, each under a new fingerprint, and  *)
(* queries between them.                                                   *)
(***************************************************************************)
RecordAny ==
    /\ pc = "idle"
    /\ Len(analyses) < MaxRows
    /\ \E snippet \in SeqsUpTo(SnippetChars, MaxSearchLen) :
        InsertAnalysis(nextId, 1, TRUE, snippet)

QueryAny ==
    /\ pc = "idle"
    /\ \E tb_snippet \in SeqsUpTo(SnippetChars, MaxSearchLen + 1), limit \in 0..MaxLimit :
        QuerySimilar(tb_snippet, limit)

NextRecall ==
    \/ (pc = "idle" /\ ~dbReady /\ InitDb)
    \/ RecordAny
    \/ (pc = "idle" /\ Tick)
    \/ QueryAny
    \/ Done

SpecRecall == InitMemory /\ [][NextRecall]_vars

(***************************************************************************)
(* SpecNormalize: normalize_traceback on every short text, and on the      *)
(* canonical form it returns.                                              *)
(***************************************************************************)
NormalizeAny ==
    /\ pc = "idle"
    /\ \E lines \in SeqsUpTo(NormLines, MaxNormLines) : NormalizeTraceback(lines)

NextNormalize == NormalizeAny \/ NormalizeAgain \/ Done

SpecNormalize == InitChain /\ [][NextNormalize]_vars

(***************************************************************************)
(* SpecProject: one thread calls the project cache, one call after the     *)
(* other, while the project directories change.                            *)
(***************************************************************************)
NoCallRunning == \A t \in Threads : th[t].pc \in {"idle", "done"}

StepOf(t) == Scan(t) \/ Store(t) \/ Load(t) \/ ThreadDone(t)

CallOf(t) ==
    \/ \E path \in ProjectPaths, force_rescan \in BOOLEAN :
            GetProjectProfile(t, path, force_rescan)
    \/ ClearProjectCache(t)

NextProject ==
    \/ CallOf(1)
    \/ StepOf(1)
    \/ (NoCallRunning /\ \E root \in Roots : ModifyProject(root))

SpecProject == InitChain /\ [][NextProject]_vars

(***************************************************************************)
(* SpecThreads: several threads call the project cache at once.            *)
(***************************************************************************)
NextThreads == \E t \in Threads : CallOf(t) \/ StepOf(t)

SpecThreads == InitChain /\ [][NextThreads]_vars

(***************************************************************************)
(* SpecMatch: _match_pattern on texts that match patterns of any table,    *)
(* for every language.                                                     *)
(***************************************************************************)
MatchAny ==
    /\ pc = "idle"
    /\ \E lang \in Languages :
       \E matching \in { x \in SubsetsUpTo(PatternIds, MaxTextMatches) : Closed(x) } :
            MatchPattern(matching, lang)

NextMatch == MatchAny \/ Done

SpecMatch == InitChain /\ [][NextMatch]_vars

(***************************************************************************)
(* SpecWatch: a program appends tracebacks to the watched file while the   *)
(* observer thread reads it and the main loop flushes; the analyses table  *)
(* exists, so that analyze() returns.                                      *)
(***************************************************************************)
InitWatch ==
    /\ env = [openai_sdk |-> FALSE, anthropic_sdk |-> FALSE,
              xai_key |-> FALSE, anthropic_key |-> FALSE]
    /\ dbReady = TRUE
    /\ disk = [f \in AllFiles |-> 1]
    /\ InitRest

FlushStep(t) ==
    \/ Flush74(t) \/ Flush77(t) \/ Flush78(t) \/ Flush79(t)
    \/ Flush80Load(t) \/ Flush80Store(t) \/ AnalyzeText(t)

NextWatch ==
    \/ Write
    \/ OnModified \/ ReadLine \/ ProcessLine \/ Start124 \/ Start125 \/ Append129
    \/ MainWake
    \/ \E t \in WatchThreads : FlushStep(t)

SpecWatch == InitWatch /\ [][NextWatch]_vars

(***************************************************************************)
(* Vocabulary of the claims.                                               *)
(***************************************************************************)
Has(effects, x) == \E i \in 1..Len(effects) : effects[i] = x

Count(effects, x) == Cardinality({ i \in 1..Len(effects) : effects[i] = x })

FirstIndex(effects, x) ==
    CHOOSE i \in 1..Len(effects) :
        effects[i] = x /\ \A j \in 1..(i - 1) : effects[j] # x

\* the first a comes before the first b
Precedes(effects, a, b) ==
    /\ Has(effects, a)
    /\ Has(effects, b)
    /\ FirstIndex(effects, a) < FirstIndex(effects, b)

ProviderEvents == {"provider:2", "provider:3", "provider:4"}

NoProviderCalled(effects) == \A i \in 1..Len(effects) : effects[i] \notin ProviderEvents

FailureKinds == {"raises", "non_json", "json_not_object"}

Returned == pc = "returned"

Reported == outcome.raised = "none" /\ outcome.report # NoReport

\* the trace's match text holds a pattern of a table the language tries
PatternHit(t) == match_text(t) \cap TriedPatterns(t.lang) # {}

\* the rule of the documented cascade that decides the call, for a provider
\* that answers with a diagnosis or fails: 4, 3, 1, 2, or 0 for the fallback
DocumentedTier(r, e) ==
    IF r.deep /\ get_anthropic_client(e) THEN 4
    ELSE IF r.haiku /\ get_anthropic_client(e) THEN 3
    ELSE IF PatternHit(r.trace) THEN 1
    ELSE IF get_grok_client(e) THEN 2
    ELSE 0

\* C1: with neither deep nor haiku set, a pattern match gives a tier-1 report
\* and no provider call; after a pattern miss the tier-2 provider's diagnosis
\* is returned as a tier-2 report, the matcher having run before the provider.
C1_PatternBeforeModel ==
    (Returned /\ ~req.trace.empty /\ ~req.deep /\ ~req.haiku) =>
        /\ PatternHit(req.trace) =>
            /\ Reported
            /\ outcome.report.tier = 1
            /\ NoProviderCalled(outcome.effects)
        /\ Has(outcome.effects, "provider:2") =>
            /\ ~PatternHit(req.trace)
            /\ Precedes(outcome.effects, "match_pattern", "provider:2")
        /\ (~PatternHit(req.trace) /\ get_grok_client(env) /\ req.resp.kind = "ok") =>
            /\ Reported
            /\ outcome.report.tier = 2
            /\ Has(outcome.effects, "provider:2")

\* C2: deep with a tier-4 diagnosis gives a tier-4 report, haiku without deep
\* and with a tier-3 diagnosis gives a tier-3 report, in both cases without the
\* pattern matcher or another tier; with both flags deep is tried first.
C2_FlagSelectsTier ==
    (Returned /\ ~req.trace.empty /\ get_anthropic_client(env) /\ req.resp.kind = "ok") =>
        /\ req.deep =>
            /\ Reported
            /\ outcome.report.tier = 4
            /\ ~Has(outcome.effects, "match_pattern")
            /\ ~Has(outcome.effects, "analyze_with_llm:3")
            /\ ~Has(outcome.effects, "analyze_with_llm:2")
        /\ (~req.deep /\ req.haiku) =>
            /\ Reported
            /\ outcome.report.tier = 3
            /\ ~Has(outcome.effects, "match_pattern")
            /\ ~Has(outcome.effects, "analyze_with_llm:4")
            /\ ~Has(outcome.effects, "analyze_with_llm:2")

\* C3: offline and without model flags, a trace that matches pattern P gets a
\* tier-1 report whose severity is the severity declared for P.
C3_PatternSeverity ==
    (Returned /\ ~req.deep /\ ~req.haiku /\ Offline(env)) =>
        \A P \in req.trace.whole \cap TriedPatterns(req.trace.lang) :
            /\ Reported
            /\ outcome.report.tier = 1
            /\ outcome.report.severity = Table(P[1])[P[2]]

\* C4: no pattern match and no provider gives the tier-0 report: severity
\* medium, root cause "unrecognized", fix "configure credentials"; and every
\* tier-0 report has severity medium.
C4_FallbackReport ==
    /\ (Returned /\ ~req.trace.empty /\ ~PatternHit(req.trace) /\ Offline(env)) =>
            /\ Reported
            /\ outcome.report.tier = 0
            /\ outcome.report.severity = "medium"
            /\ outcome.report.root_cause = "unrecognized, no LLM available"
            /\ outcome.report.suggested_fix = "configure API keys"
    /\ (Returned /\ outcome.report.tier = 0) => outcome.report.severity = "medium"

\* C5: for every non-empty trace, every flag combination and every provider
\* availability, analyze() returns a report and raises no exception.
C5_NeverRaises ==
    (Returned /\ ~req.trace.empty) => Reported

\* C6: a flag whose provider is unavailable is skipped: the call goes on to the
\* pattern matcher and still returns a report, and no unavailable provider is
\* called.
C6_UnavailableSkipped ==
    (Returned /\ ~req.trace.empty /\ (req.deep \/ req.haiku) /\ ~get_anthropic_client(env)) =>
        /\ Reported
        /\ Has(outcome.effects, "match_pattern")
        /\ ~Has(outcome.effects, "provider:4")
        /\ ~Has(outcome.effects, "provider:3")

\* C7: when the provider that decides the call raises or answers with text that
\* is not a JSON object, the report is the sentinel of that tier (severity low,
\* failure text in error_message), the provider was called once and no other
\* tier was tried afterwards.
C7_SentinelOnFailure ==
    (Returned /\ ~req.trace.empty /\ req.resp.kind \in FailureKinds
        /\ DocumentedTier(req, env) \in {2, 3, 4}) =>
        /\ Reported
        /\ outcome.report.tier = DocumentedTier(req, env)
        /\ outcome.report.severity = "low"
        /\ outcome.report.error_message = "exception text"
        /\ Cardinality({ i \in 1..Len(outcome.effects) :
                            outcome.effects[i] \in ProviderEvents }) = 1

\* C8: an empty or whitespace-only trace surfaces InputEmpty: no report, no
\* provider call, no memory write.
C8_EmptyTraceSurfaced ==
    (Returned /\ req.trace.empty) =>
        /\ outcome.raised = "InputEmpty"
        /\ outcome.report = NoReport
        /\ NoProviderCalled(outcome.effects)
        /\ ~Has(outcome.effects, "insert_analysis")

C10_RecordAfterModelTier ==
    (Returned /\ ~req.trace.empty /\ req.use_memory /\ req.resp.kind = "ok"
        /\ DocumentedTier(req, env) \in {2, 3, 4}) =>
        /\ Reported
        /\ outcome.report.tier = DocumentedTier(req, env)
        /\ Count(outcome.effects, "insert_analysis") = 1
        /\ outcome.effects[Len(outcome.effects)] = "insert_analysis"

C12_MemoryUnavailableSkipped ==
    (Returned /\ req.use_memory /\ ~dbReady) =>
        LET off == analyze(req.trace, req.deep, req.haiku, req.project_path,
                           req.no_git, FALSE, env, dbReady, req.resp, disk, linecache)
        IN  /\ outcome.raised # "OperationalError"
            /\ outcome.raised = off.raised
            /\ outcome.report = off.report

\* C13: when analyze() is over, on any branch, the line cache is empty, and
\* every source window the call read held the content the file had on disk
\* at that moment.
C13_CacheEmptyAfterCall ==
    /\ linecache = EmptyCache
    /\ Returned =>
        \A i \in 1..Len(outcome.reads) :
            outcome.reads[i].version = outcome.reads[i].ondisk

\* C13 witness: a tier-1 report, returned on the branch that does not call
\* clear_cache(), of a call that read a file rewritten since the start.
C13_Witness ==
    /\ Returned
    /\ Reported
    /\ outcome.report.tier = 1
    /\ ~Has(outcome.effects, "clear_cache")
    /\ linecache = EmptyCache
    /\ \E i \in 1..Len(outcome.reads) : outcome.reads[i].version = MaxVersion

\* C14: when parse_exception_chain returns links, the first has relationship
\* root and every later one has direct_cause, implicit_context or caused_by.
C14_FirstLinkIsRoot ==
    (chain.called /\ chain.links # << >>) =>
        /\ chain.links[1].relationship = "root"
        /\ \A k \in 2..Len(chain.links) :
            chain.links[k].relationship \in {"direct_cause", "implicit_context", "caused_by"}

\* the separator that immediately precedes part i
PrecedingSeparator(toks, i) == Max({ j \in 1..(i - 1) : toks[j] \in PySeparators })

\* C15: in a Python text with separators, the links are numbered 0..n-1 in
\* source order, each covers the stripped text of one non-empty segment, each
\* link after the first has the relationship of the separator just before its
\* text, every non-empty segment has its link (the one after the last
\* separator too) and an empty segment has none.
C15_PythonChainOrder ==
    (chain.called /\ chain.lang = "python"
        /\ \E i \in 1..Len(chain.toks) : chain.toks[i] \in PySeparators) =>
        LET toks == chain.toks
            links == chain.links
        IN  /\ \A k \in 1..Len(links) :
                /\ links[k].index = k - 1
                /\ links[k].from <= links[k].to
                /\ toks[links[k].from] # "blank"
                /\ toks[links[k].to] # "blank"
                /\ \A i \in links[k].from..links[k].to : toks[i] \notin PySeparators
            /\ \A k \in 1..(Len(links) - 1) :
                \E j \in (links[k].to + 1)..(links[k + 1].from - 1) : toks[j] \in PySeparators
            /\ \A k \in 2..Len(links) :
                links[k].relationship = toks[PrecedingSeparator(toks, links[k].from)]
            /\ \A i \in 1..Len(toks) :
                toks[i] \notin PySeparators \cup {"blank"} =>
                    \E k \in 1..Len(links) : links[k].from <= i /\ i <= links[k].to

\* C15 witness: three links split by a direct-cause separator and then an
\* implicit-context separator.
C15_Witness ==
    /\ chain.called
    /\ chain.lang = "python"
    /\ Len(chain.links) = 3
    /\ chain.links[1].relationship = "root"
    /\ chain.links[2].relationship = "direct_cause"
    /\ chain.links[3].relationship = "implicit_context"
    /\ chain.links[3].to = Len(chain.toks)

\* a chained Python trace: header, frames, error line, then one or more times
\* a separator (blank lines around it), header, frames, error line
RECURSIVE ChainedFrom(_, _, _, _)
ChainedFrom(lines, i, expect, seps) ==
    IF i > Len(lines) THEN expect = "ended" /\ seps >= 1
    ELSE CASE expect = "header" ->
                (lines[i] = "header" /\ ChainedFrom(lines, i + 1, "body", seps))
                \/ (seps >= 1 /\ lines[i] = "blank" /\ ChainedFrom(lines, i + 1, "header", seps))
           [] expect = "body" ->
                (lines[i] \in {"frame", "code"} /\ ChainedFrom(lines, i + 1, "body", seps))
                \/ (lines[i] \in {"error", "bare_error"} /\ ChainedFrom(lines, i + 1, "ended", seps))
           [] expect = "ended" ->
                (lines[i] = "blank" /\ i < Len(lines) /\ ChainedFrom(lines, i + 1, "ended", seps))
                \/ (lines[i] = "sep" /\ ChainedFrom(lines, i + 1, "header", seps + 1))

IsChainedTrace(lines) == ChainedFrom(lines, 1, "header", 0)

\* C16: for a chained trace C, extract_tracebacks(C) is one block and the
\* block is the whole of C.
C16_ChainedUnitKept ==
    (batch.called /\ IsChainedTrace(batch.text)) =>
        batch.blocks = << [from |-> 1, to |-> Len(batch.text)] >>

\* C17: for a text with Python headers, the blocks come in source order, each
\* starts at a header, two adjacent headers without a separator between them
\* are in different blocks, the second starting its block, and two adjacent
\* headers with a separator between them are in one block.
C17_HeadersGrouped ==
    (batch.called /\ \E i \in 1..Len(batch.text) : batch.text[i] = "header") =>
        LET lines == batch.text
            blocks == batch.blocks
            starts == Positions(lines, {"header"}, 1)
            In(h, k) == blocks[k].from <= h /\ h <= blocks[k].to
        IN  /\ \A k \in 1..Len(blocks) : lines[blocks[k].from] = "header"
            /\ \A k \in 1..(Len(blocks) - 1) : blocks[k].to < blocks[k + 1].from
            /\ \A n \in 2..Len(starts) :
                IF SepBetween(lines, starts[n - 1], starts[n])
                THEN \E k \in 1..Len(blocks) : In(starts[n - 1], k) /\ In(starts[n], k)
                ELSE /\ \E k \in 1..Len(blocks) : blocks[k].from = starts[n]
                     /\ \E k \in 1..Len(blocks) : In(starts[n - 1], k) /\ ~In(starts[n], k)

C20_GoInnermostFrame ==
    (Returned /\ Reported /\ req.trace.lang = "go"
        /\ \E i \in 1..Len(req.trace.frames) : req.trace.frames[i].file # RuntimeFile) =>
        LET user == SelectSeq(req.trace.frames, LAMBDA f : f.file # RuntimeFile)
        IN  /\ outcome.report.file_path = user[1].file
            /\ outcome.report.line_number = user[1].line

\* frames[:n]
FirstN(frames, n) == SubSeq(frames, 1, IF Len(frames) > n THEN n ELSE Len(frames))

\* the up to n innermost frames of a trace of language lang, in text order
Innermost(frames, lang, n) ==
    IF lang \in {"python", "rust"} THEN LastN(frames, n) ELSE FirstN(frames, n)

FrameOf(rec) == [file |-> rec.file, line |-> rec.line]

FramesOf(recs) == [i \in 1..Len(recs) |-> FrameOf(recs[i])]

\* C21: the source windows and the git contexts that analyze() collects are
\* those of the up to three innermost frames of the trace: the last frames in
\* the text for python and rust, the first for node, go and java.
C21_InnermostFramesCollected ==
    (Returned /\ req.trace.lang \in {"python", "rust", "node", "go", "java"}) =>
        LET inner == Innermost(extract_frames(req.trace), req.trace.lang, 3)
        IN  /\ FramesOf(outcome.reads)
                 = SelectSeq(inner, LAMBDA f : disk[f.file] # 0)
            /\ ~req.no_git =>
                 outcome.git = SelectSeq(inner, LAMBDA f : disk[f.file] # 0
                                                          /\ f.file # RuntimeFile)

\* the order in which the claim breaks ties
LanguageOrder == << "python", "node", "rust", "go", "java", "solidity" >>

Rank(lang) == CHOOSE k \in 1..Len(LanguageOrder) : LanguageOrder[k] = lang

\* the number of signatures of lang among those found
Score(found, lang) == Cardinality({ s \in found : s[1] = lang })

\* C22: detect_language returns one of the seven language tags: unknown
\* exactly when no signature matches, otherwise the language with the most
\* matching signatures and, among equals, the earliest in the order python,
\* node, rust, go, java, solidity; a second call on the same text returns
\* the same tag.
C22_DetectLanguage ==
    (Returned /\ ret.fn = "detect_language") =>
        /\ ret.result \in Languages
        /\ ret.result = "unknown" <=> ret.args = {}
        /\ ret.result # "unknown" =>
             \A k \in 1..Len(LanguageOrder) :
                /\ Score(ret.args, LanguageOrder[k]) <= Score(ret.args, ret.result)
                /\ Score(ret.args, LanguageOrder[k]) = Score(ret.args, ret.result)
                     => Rank(ret.result) <= k
        /\ ret.calls = 2 => ret.again = ret.result

\* two calls on a text where rust and java have one signature each and no
\* language before rust has any: the tie goes to rust
C22_Witness ==
    /\ Returned
    /\ ret.fn = "detect_language"
    /\ ret.calls = 2
    /\ Score(ret.args, "rust") = 1
    /\ Score(ret.args, "java") = 1
    /\ Score(ret.args, "python") = 0
    /\ Score(ret.args, "node") = 0
    /\ ret.result = "rust"

\* C23: read_source_window returns start_line = max(1, line - radius) and at
\* most end_line - start_line + 1 and at most 2*radius + 1 lines; for a
\* missing or unreadable file it returns exists = false and no lines, and
\* raises nothing.
C23_SourceWindow ==
    (Returned /\ ret.fn = "read_source_window") =>
        LET w == ret.result
            a == ret.args
        IN  /\ w.start_line = Max({1, a.line_number - a.radius})
            /\ Len(w.source_lines) <= w.end_line - w.start_line + 1
            /\ Len(w.source_lines) <= 2 * a.radius + 1
            /\ (~a.file.isfile \/ ~a.file.readable) =>
                 (~w.exists /\ w.source_lines = << >> /\ ret.raised = "none")

\* the rows of the table that match the search term of a query
Matching(tb_snippet) ==
    { i \in 1..Len(analyses) :
        Like(analyses[i].tb_snippet, Truncate(tb_snippet, MaxSearchLen)) }

TokensOfLine(line) ==
    (IF line.frame = None THEN << >>
     ELSE << [name |-> line.frame.path.base, lineno |-> line.frame.lineno] >>)
    \o (IF line.ref = None THEN << >> ELSE << line.ref >>)

RECURSIVE TokensOf(_)
TokensOf(lines) ==
    IF lines = << >> THEN << >> ELSE TokensOfLine(Head(lines)) \o TokensOf(Tail(lines))

\* a sequence without the repetitions of its elements
RECURSIVE FirstOccurrences(_, _)
FirstOccurrences(s, seen) ==
    IF s = << >> THEN << >>
    ELSE IF Head(s) \in seen THEN FirstOccurrences(Tail(s), seen)
    ELSE << Head(s) >> \o FirstOccurrences(Tail(s), seen \cup {Head(s)})

\* C25: the canonical form lists each basename:line token of the trace once,
\* in the order of first occurrence, one per line; the snippet is the first
\* 500 characters of that form and the fingerprint is the hash of the whole
\* form.
C25_CanonicalForm ==
    (Returned /\ ret.fn = "normalize_traceback") =>
        LET canonical == FirstOccurrences(TokensOf(ret.args), {})
        IN  /\ ret.result.normalized_lines = canonical
            /\ ret.result.tb_snippet = Truncate(Join(canonical), MaxSnippetUnits)
            /\ Len(ret.result.tb_snippet) <= MaxSnippetUnits
            /\ ret.result.tb_hash = sha256(Join(canonical))

\* C26: normalizing the canonical form of a trace gives the same canonical
\* form, fingerprint and snippet as normalizing the trace.
C26_Idempotent ==
    (Returned /\ ret.fn = "normalize_traceback" /\ ret.calls = 2) =>
        ret.again = ret.result

\* C27: a call for a root that is cached returns the cached profile without
\* a scan, whatever the spelling of the path, unless force_rescan is given;
\* a call for a root that is not cached, or with force_rescan, scans it; a
\* call leaves the entries of the other roots as they were; after
\* clear_project_cache() nothing is cached.
C27_ScanOncePerLifetime ==
    \A t \in Threads :
        /\ (th[t].pc = "done" /\ th[t].fn = "get_project_profile") =>
            LET c == th[t]
                cached == c.before[c.abs_path] # NoProfile /\ ~c.force_rescan
            IN  /\ c.raised = "none"
                /\ cached => (~c.scanned /\ c.result = c.before[c.abs_path])
                /\ ~cached => (c.scanned /\ c.result = c.profile
                                /\ c.result.root = c.abs_path)
                /\ project_cache[c.abs_path] = c.result
                /\ \A r \in Roots \ {c.abs_path} : project_cache[r] = c.before[r]
        /\ (th[t].pc = "done" /\ th[t].fn = "clear_project_cache") =>
            project_cache = EmptyProjectCache

\* a call by a relative path for a root that was cached before its directory
\* changed, with the other root cached too: no scan, the old profile
C27_Witness ==
    \E t \in Threads :
        /\ th[t].pc = "done"
        /\ th[t].fn = "get_project_profile"
        /\ th[t].path.spelling = "relative"
        /\ ~th[t].force_rescan
        /\ ~th[t].scanned
        /\ th[t].result.version < projects[th[t].abs_path]
        /\ \A r \in Roots : project_cache[r] # NoProfile

\* C29: under concurrent calls every get_project_profile call returns a
\* profile of the requested root and never fails on a missing entry, and
\* once no call is running the entry of a root is the last profile written.
C29_ConcurrentCalls ==
    /\ \A t \in Threads :
            (th[t].pc = "done" /\ th[t].fn = "get_project_profile") =>
                (th[t].raised = "none" /\ th[t].result.root = th[t].abs_path)
    /\ NoCallRunning => project_cache = last_write

\* the tables the claim names for a language, in the order it names them
C28_Order(lang) ==
    CASE lang = "node"     -> << "node", "python" >>
      [] lang = "rust"     -> << "rust", "python" >>
      [] lang \in {"go", "java", "solidity"} -> << lang >>
      [] OTHER             -> << "python" >>

\* p stands before q in that order: an earlier table, or the same table and
\* an earlier declaration
C28_Before(order, p, q) ==
    \E i, j \in 1..Len(order) :
        /\ order[i] = p[1]
        /\ order[j] = q[1]
        /\ (i < j \/ (i = j /\ p[2] < q[2]))

C28_Tried(order, matching) ==
    { p \in matching : \E i \in 1..Len(order) : order[i] = p[1] }

\* C28: _match_pattern tries the tables in the order fixed by the language
\* (node: Node then Python; rust: Rust then Python; go, java, solidity: their
\* own table; python and unknown: the Python table); the first matching
\* pattern in that order decides the diagnosis, and a text that matches no
\* pattern of a tried table gets no diagnosis.
C28_FirstMatchDecides ==
    (Returned /\ ret.fn = "match_pattern") =>
        LET order == C28_Order(ret.args.lang)
            tried == C28_Tried(order, ret.args.matching)
        IN  /\ ret.raised = "none"
            /\ tried = {} => ret.result = None
            /\ \A p \in tried :
                    (\A q \in tried \ {p} : C28_Before(order, p, q)) =>
                        ret.result = [none |-> FALSE, pattern |-> p,
                                      severity |-> Table(p[1])[p[2]]]

\* the text of traceback n as a whole
C30_Whole(n) == [i \in 1..Len(TracebackLines(n)) |-> Piece(TracebackLines(n)[i], "whole")]

\* everything is written and read, and no thread has anything left to do
C30_Quiet ==
    /\ Completed(logfile) = Len(WrittenLines(MaxTracebacks))
    /\ sentinel.file_pos = Len(logfile)
    /\ wt["observer"].pc = "idle"
    /\ wt["main"].pc = "sleep"
    /\ ~(sentinel.in_traceback /\ sentinel.buffer # << >>)

\* C30: every analysed text is a whole traceback and no traceback is
\* analysed twice; once all is written and the threads are idle, every
\* traceback has been analysed; after each flush the buffer is empty,
\* _in_traceback is false and _error_count is the number of flushes.
C30_EachTracebackOnceAndWhole ==
    /\ \A i \in 1..Len(analysed) :
            /\ \E n \in 1..MaxTracebacks : analysed[i] = C30_Whole(n)
            /\ \A j \in 1..Len(analysed) : analysed[j] = analysed[i] => j = i
    /\ C30_Quiet =>
            \A n \in 1..MaxTracebacks :
                \E i \in 1..Len(analysed) : analysed[i] = C30_Whole(n)
    /\ \A t \in WatchThreads :
            wt[t].pc = "flushed" =>
                /\ sentinel.buffer = << >>
                /\ ~sentinel.in_traceback
                /\ sentinel.error_count = flushes

====
